---- MODULE Spec2Model ----
(***************************************************************************)
(* A model of the T800 processor (internal/processor/processor.go), its    *)
(* anatomy registry, health trackers and strategy catalogs.                *)
(*                                                                         *)
(* Numbers.  The Go code computes with float64.  The model uses fixed      *)
(* point integers:                                                          *)
(*   - lengths are counted in movement steps of speed.Linear * deltaTime   *)
(*     = 5.0 m/s * 0.1 s = 0.5 m, along one axis through the robot (the    *)
(*     scanner's angles 0 and 180 degrees); NaN is kept as a flag;         *)
(*   - armor rating and shield strength are whole percents, a product      *)
(*     being rounded down;                                                 *)
(*   - health is counted in hundredths of a health point.                  *)
(***************************************************************************)
EXTENDS Integers, Sequences, FiniteSets, TLC

\* ---------------------------------------------------------------- bounds
\* ReportThreat calls explored.
MaxReports == 1
\* The robot's coordinate stays within -MaxCoord .. MaxCoord steps.
MaxCoord == 2
\* Wall-clock seconds the health loop may read: 1 .. MaxTime.
MaxTime == 1

\* ----------------------------------------------------- program constants
\* Movement steps per metre: one step is speed.Linear * deltaTime = 0.5 m.
StepsPerMetre == 2
\* engagementDistance, in metres.
EngagementMetres == 20
\* Scanner.range_, in metres.
ScanRangeMetres == 100
\* NewSafeHealth(100): the maximum health of every part, in health points.
MaxHealthPoints == 100
\* Hundredths of a health point per health point.
HealthScale == 100

EngagementDistance == EngagementMetres * StepsPerMetre
ScanRange == ScanRangeMetres * StepsPerMetre
MaxHealth == MaxHealthPoints * HealthScale

Abs(x) == IF x < 0 THEN 0 - x ELSE x
Min(a, b) == IF a < b THEN a ELSE b
Max(a, b) == IF a < b THEN b ELSE a

\* ------------------------------------------------------------- locations
Loc(x) == [nan |-> FALSE, x |-> x]
NaNLoc == [nan |-> TRUE, x |-> 0]

\* common.CalculateDistance on one axis.  Only used on two numbers.
CalculateDistance(a, b) == Abs(a.x - b.x)

\* Location.MoveTowards(target, speed, deltaTime) with speed * deltaTime = 1 step.
\* A NaN operand makes distance NaN: "distance == 0" and "moveDistance >
\* distance" are then false and scale = moveDistance / NaN is NaN.
MoveTowards(loc, target) ==
    IF loc.nan \/ target.nan THEN NaNLoc
    ELSE LET distance == CalculateDistance(loc, target)
             moveDistance == Min(1, distance)
         IN  IF distance = 0 THEN loc
             ELSE IF target.x > loc.x THEN Loc(loc.x + moveDistance)
             ELSE Loc(loc.x - moveDistance)

\* The branch moveAndEngage takes for the distance it computed.  With a NaN
\* distance both comparisons are false and the last branch is taken.
Branch(loc, tloc) ==
    IF loc.nan \/ tloc.nan THEN "back"
    ELSE LET distance == CalculateDistance(loc, tloc)
         IN  IF Abs(distance - EngagementDistance) < 1 * StepsPerMetre THEN "engage"
             ELSE IF distance > EngagementDistance THEN "move"
             ELSE "back"

\* The backup position of the too-close branch:
\* threat + (loc - threat) * (engagementDistance / distance).
\* With distance 0 the scale is +Inf and 0 * Inf is NaN.
BackupPos(loc, tloc) ==
    IF loc.nan \/ tloc.nan THEN NaNLoc
    ELSE IF loc.x = tloc.x THEN NaNLoc
    ELSE IF loc.x > tloc.x THEN Loc(tloc.x + EngagementDistance)
    ELSE Loc(tloc.x - EngagementDistance)

\* --------------------------------------------------------------- threats
\* A nil *common.Threat.
NilId == [src |-> "nil", n |-> 0]
NoThreat == [id |-> NilId, Severity |-> 0, Location |-> Loc(0), Health |-> 0]
Threat(id, sev, loc, hp) == [id |-> id, Severity |-> sev, Location |-> loc, Health |-> hp]

\* calculateThreatLevel(threatLoc, currentLoc), distances in metres.
calculateThreatLevel(tloc, cur) ==
    IF tloc.nan \/ cur.nan THEN 1
    ELSE LET distance == CalculateDistance(tloc, cur)
         IN  IF distance < 10 * StepsPerMetre THEN 9
             ELSE IF distance < 30 * StepsPerMetre THEN 6
             ELSE IF distance < 60 * StepsPerMetre THEN 3
             ELSE 1

\* The threat ScanArea builds at an angle: at range_ from the current
\* location, angle 0 towards +x and angle 180 towards -x.
\* A predicted threat at that place has probability 1 - range_/range_ = 0,
\* never above 0.7, so only detected threats are returned.  The scanner
\* leaves Threat.Health at its zero value.
ScannedThreat(angle, cur) ==
    LET tloc == IF cur.nan THEN NaNLoc
                ELSE IF angle = 0 THEN Loc(cur.x + ScanRange)
                ELSE Loc(cur.x - ScanRange)
    IN  Threat([src |-> "scan", n |-> angle], calculateThreatLevel(tloc, cur), tloc, 0)

\* What ScanArea may return: the angles are visited in increasing order and
\* each detects a threat or not (rand.Float64() < 0.05).  Explored: nothing,
\* a threat at angle 0, threats at both angles.
ScanArea(cur) ==
    { <<>>,
      <<ScannedThreat(0, cur)>>,
      <<ScannedThreat(0, cur), ScannedThreat(180, cur)>> }

\* The threats a caller hands to ReportThreat, as <<severity, coordinate>>:
\* one worth engaging (severity >= 3 within 30 m) just beyond the engagement
\* distance and a harmless one just inside it.  The call number n gives the
\* pointer identity (&threat is a fresh copy per call).  The caller sets
\* Health as main does.
ReportInputs == { <<3, 42>>, <<0, 38>> }
ReportedHealth == 100
ReportedThreats(n) ==
    { Threat([src |-> "report", n |-> n], in[1], Loc(in[2]), ReportedHealth) :
        in \in ReportInputs }

\* --------------------------------------------------------------- anatomy
\* NewRobotAnatomy: the six parts, their category and critical flag.
Parts == {"head", "body", "arm_left", "arm_right", "leg_left", "leg_right"}
Arms == <<"arm_left", "arm_right">>
PartType(name) ==
    CASE name = "head" -> "head"
      [] name = "body" -> "body"
      [] name \in {"arm_left", "arm_right"} -> "arm"
      [] OTHER -> "leg"
IsCritical(name) == name \notin {"arm_left", "arm_right"}
\* RobotAnatomy.GetCriticalParts: the parts flagged critical.
GetCriticalParts == { p \in Parts : IsCritical(p) }

\* DefaultProtection(partType).
DefaultProtection(type) ==
    CASE type = "head" -> [ArmorRating |-> 95, ShieldStrength |-> 90, IsActive |-> TRUE]
      [] type = "body" -> [ArmorRating |-> 90, ShieldStrength |-> 85, IsActive |-> TRUE]
      [] OTHER -> [ArmorRating |-> 80, ShieldStrength |-> 75, IsActive |-> TRUE]

\* ------------------------------------------------------- defense catalog
\* StrategyManager.GetDefensiveStrategies(part): the list registered for the
\* part's category, else getDefaultStrategies().
GetDefensiveStrategies(name) ==
    CASE PartType(name) = "head" -> <<"ActivateEmergencyShields", "InitiateEvasiveManeuver">>
      [] PartType(name) = "body" -> <<"ReinforceCriticalSystems", "DistributeShieldPower">>
      [] OTHER -> <<"ActivateEmergencyShields", "InitiateEvasiveManeuver">>

\* DefensiveAction without the ceiling of 100 on the boosted values.
DefensiveActionUncapped(strategy, name, prot, threat) ==
    CASE strategy = "ActivateEmergencyShields" ->
           [res |-> "ok", prot |-> [prot EXCEPT !.ShieldStrength = (@ * 15) \div 10]]
      [] strategy = "InitiateEvasiveManeuver" ->
           [res |-> IF threat = NoThreat THEN "error" ELSE "ok", prot |-> prot]
      [] strategy = "ReinforceCriticalSystems" ->
           IF ~IsCritical(name) THEN [res |-> "error", prot |-> prot]
           ELSE [res |-> "ok", prot |-> [prot EXCEPT !.ArmorRating = (@ * 13) \div 10]]
      [] OTHER ->
           IF threat = NoThreat THEN [res |-> "panic", prot |-> prot]
           ELSE [res |-> "ok",
                 prot |-> [prot EXCEPT !.ShieldStrength = (@ * threat.Severity) \div 10]]

\* One defensive action on a (non-nil) part with protection prot.  The
\* result is "ok", "error" or "panic" (a nil threat dereferenced) and the
\* part's protection afterwards.
DefensiveAction(strategy, name, prot, threat) ==
    CASE strategy = "ActivateEmergencyShields" ->
           [res |-> "ok",
            prot |-> [prot EXCEPT !.ShieldStrength = Min(100, (@ * 15) \div 10)]]
      [] strategy = "InitiateEvasiveManeuver" ->
           [res |-> IF threat = NoThreat THEN "error" ELSE "ok", prot |-> prot]
      [] strategy = "ReinforceCriticalSystems" ->
           IF ~IsCritical(name) THEN [res |-> "error", prot |-> prot]
           ELSE [res |-> "ok",
                 prot |-> [prot EXCEPT !.ArmorRating = Min(100, (@ * 13) \div 10)]]
      [] OTHER ->
           IF threat = NoThreat THEN [res |-> "panic", prot |-> prot]
           ELSE [res |-> "ok",
                 prot |-> [prot EXCEPT !.ShieldStrength =
                                          Min(100, (@ * threat.Severity) \div 10)]]

\* The loop over a part's defensive strategies: each runs on the protection
\* its predecessor left; an error is logged and the loop goes on; a panic
\* ends it.  The result is the protection afterwards and the events, one
\* per strategy run.
RECURSIVE RunDefensive(_, _, _, _, _)
RunDefensive(strategies, name, prot, threat, events) ==
    IF strategies = <<>> THEN [prot |-> prot, events |-> events, panic |-> FALSE]
    ELSE LET r == DefensiveAction(Head(strategies), name, prot, threat)
             ev == Append(events, [part |-> name, strategy |-> Head(strategies),
                                   res |-> r.res])
         IN  IF r.res = "panic" THEN [prot |-> r.prot, events |-> ev, panic |-> TRUE]
             ELSE RunDefensive(Tail(strategies), name, r.prot, threat, ev)

\* The defensive pass of engageTarget and of executePreemptiveStrike: every
\* defensive strategy of every critical part, an error only being logged.
\* The attack actions they run change no state.
DefendAll(prot, threat) ==
    [ p \in Parts |->
        IF IsCritical(p)
        THEN RunDefensive(GetDefensiveStrategies(p), p, prot[p], threat, <<>>).prot
        ELSE prot[p] ]
\* With a nil threat DistributeShieldPower panics on the body; the parts the
\* map iteration reached before the body have been defended.
DefendAllPanics(prot) ==
    { [ p \in Parts |-> IF p \in S \cup {"body"} THEN DefendAll(prot, NoThreat)[p]
                        ELSE prot[p] ] : S \in SUBSET (GetCriticalParts \ {"body"}) }

\* ------------------------------------------------------- offense catalog
\* OffenseManager.GetOffensiveStrategies(part): nil when no list is registered.
GetOffensiveStrategies(name) ==
    CASE PartType(name) = "arm" -> <<"PlasmaCannonAttack">>
      [] PartType(name) = "body" -> <<"MissileLaunch", "EMPPulse">>
      [] PartType(name) = "head" -> <<"LaserBeam">>
      [] OTHER -> <<>>

\* The part category an attack action requires.
AttackPartType(strategy) ==
    CASE strategy = "PlasmaCannonAttack" -> "arm"
      [] strategy = "LaserBeam" -> "head"
      [] OTHER -> "body"

\* One attack action on a (non-nil) part: an error for a nil threat or a
\* part of another category, else a printed line and no state change.
AttackAction(strategy, name, threat) ==
    IF threat = NoThreat THEN "error"
    ELSE IF PartType(name) # AttackPartType(strategy) THEN "error"
    ELSE "ok"

\* The loop over a part's attack strategies: the events, one per strategy.
RunOffensive(name, threat) ==
    LET strategies == GetOffensiveStrategies(name)
    IN  [ k \in 1..Len(strategies) |->
            [part |-> name, strategy |-> strategies[k],
             res |-> AttackAction(strategies[k], name, threat)] ]

\* ------------------------------------------------ float64 health values
\* A float64 health value: NaN, or a number of hundredths of a health point.
F(v) == [nan |-> FALSE, v |-> v]
NaN == [nan |-> TRUE, v |-> 0]
\* a + b and a - b: NaN when an operand is NaN.
FAdd(a, b) == IF a.nan \/ b.nan THEN NaN ELSE F(a.v + b.v)
FSub(a, b) == IF a.nan \/ b.nan THEN NaN ELSE F(a.v - b.v)
\* a <= b and a < b: false when an operand is NaN.
FLe(a, b) == ~a.nan /\ ~b.nan /\ a.v <= b.v
FLt(a, b) == ~a.nan /\ ~b.nan /\ a.v < b.v
\* The builtin min and max on float64: NaN when an argument is NaN.
FMin(a, b) == IF a.nan \/ b.nan THEN NaN ELSE F(Min(a.v, b.v))
FMax(a, b) == IF a.nan \/ b.nan THEN NaN ELSE F(Max(a.v, b.v))

\* ------------------------------------------------------- health tracker
\* NewSafeHealth(100): current = maximum, lastUpdate = 0.  maximum stays
\* MaxHealth and regenRate stays 0.1 (no SetRegenRate call is modelled).
NewSafeHealth == [current |-> F(MaxHealth), lastUpdate |-> 0]

\* The body of SafeHealth.Get on tracker state h: the state afterwards and
\* the value returned.
Get(h) == [h |-> h, ret |-> h.current]

\* SafeHealth.Reduce without the cap of the damage at the current health.
ReduceUncapped(h, amount) ==
    IF FLe(amount, F(0)) THEN [h |-> h, ret |-> F(0)]
    ELSE [h |-> [h EXCEPT !.current = FMax(F(0), FSub(h.current, amount))],
          ret |-> amount]

\* The body of SafeHealth.Reduce(amount).
Reduce(h, amount) ==
    IF FLe(amount, F(0)) THEN [h |-> h, ret |-> F(0)]
    ELSE LET actualDamage == FMin(amount, h.current)
         IN  [h |-> [h EXCEPT !.current = FMax(F(0), FSub(h.current, actualDamage))],
              ret |-> actualDamage]

\* The body of SafeHealth.Heal(amount).
Heal(h, amount) ==
    IF FLe(amount, F(0)) THEN [h |-> h, ret |-> F(0)]
    ELSE LET actualHealing == FMin(amount, FSub(F(MaxHealth), h.current))
         IN  [h |-> [h EXCEPT !.current = FMin(F(MaxHealth), FAdd(h.current, actualHealing))],
              ret |-> actualHealing]

\* regenAmount of Update: regenRate (0.1) * deltaTime * maximum, deltaTime
\* being (currentTime - lastUpdate) / 1000.0.
RegenAmount(h, currentTime) ==
    F(((currentTime - h.lastUpdate) * MaxHealth) \div (10 * 1000))

\* The body of SafeHealth.Update(currentTime).  It returns nothing: ret is 0.
Update(h, currentTime) ==
    IF h.lastUpdate = 0
    THEN [h |-> [h EXCEPT !.lastUpdate = currentTime], ret |-> F(0)]
    ELSE IF currentTime - h.lastUpdate <= 0 THEN [h |-> h, ret |-> F(0)]
    ELSE [h |-> [current |-> FMin(F(MaxHealth),
                                  FAdd(h.current, RegenAmount(h, currentTime))),
                 lastUpdate |-> currentTime],
          ret |-> F(0)]

\* TakeDamage with the shield letting through what it should hold back.
TakeDamageShieldInverted(prot, h, impact) ==
    IF ~prot.IsActive THEN Reduce(h, impact)
    ELSE Reduce(h, IF impact.nan THEN NaN
                   ELSE F((impact.v * (100 - prot.ArmorRating) * prot.ShieldStrength)
                              \div (100 * 100)))

\* TakeDamage with the two reductions added instead of multiplied.
TakeDamageAdditive(prot, h, impact) ==
    IF ~prot.IsActive THEN Reduce(h, impact)
    ELSE Reduce(h, IF impact.nan THEN NaN
                   ELSE F((impact.v * (200 - prot.ArmorRating - prot.ShieldStrength))
                              \div 100))

\* BodyPart.TakeDamage(impact) on a part with protection prot and tracker
\* state h.  ArmorRating and ShieldStrength are whole percents.
TakeDamage(prot, h, impact) ==
    IF ~prot.IsActive THEN Reduce(h, impact)
    ELSE LET finalDamage ==
                 IF impact.nan THEN NaN
                 ELSE F((impact.v * (100 - prot.ArmorRating)
                                  * (100 - prot.ShieldStrength)) \div (100 * 100))
         IN  Reduce(h, finalDamage)

\* ------------------------------------------------ locations in space
\* A common.Location with its three coordinates, in movement steps.
Location(x, y, z) == [X |-> x, Y |-> y, Z |-> z]

\* math.Sqrt on a whole number: the root, rounded down when it is not whole.
Sqrt(n) == CHOOSE r \in 0..n : r * r <= n /\ (r + 1) * (r + 1) > n

\* common.CalculateDistance on the three coordinates.
CalculateDistance3(loc1, loc2) ==
    Sqrt((loc1.X - loc2.X) * (loc1.X - loc2.X)
         + (loc1.Y - loc2.Y) * (loc1.Y - loc2.Y)
         + (loc1.Z - loc2.Z) * (loc1.Z - loc2.Z))

\* Location.MoveTowards without the cap of moveDistance at distance.
MoveTowardsUncapped(loc, target, speed, deltaTime) ==
    LET direction == Location(target.X - loc.X, target.Y - loc.Y, target.Z - loc.Z)
        distance == CalculateDistance3(loc, target)
        moveDistance == speed * deltaTime
    IN  IF distance = 0 THEN loc
        ELSE Location(loc.X + (direction.X * moveDistance) \div distance,
                      loc.Y + (direction.Y * moveDistance) \div distance,
                      loc.Z + (direction.Z * moveDistance) \div distance)

\* Location.MoveTowards(target, speed, deltaTime) on the three coordinates.
\* direction * scale, scale being moveDistance / distance, is computed as
\* (direction * moveDistance) / distance.
MoveTowards3(loc, target, speed, deltaTime) ==
    LET direction == Location(target.X - loc.X, target.Y - loc.Y, target.Z - loc.Z)
        distance == CalculateDistance3(loc, target)
        moveDistance == Min(speed * deltaTime, distance)
    IN  IF distance = 0 THEN loc
        ELSE Location(loc.X + (direction.X * moveDistance) \div distance,
                      loc.Y + (direction.Y * moveDistance) \div distance,
                      loc.Z + (direction.Z * moveDistance) \div distance)

\* ----------------------------------------------------------------- state
VARIABLES
    active,        \* Status.active
    Mode,          \* Status.Mode
    cancelled,     \* p.ctx is done
    crashed,       \* a goroutine panicked: the process is gone
    activeThreat,  \* p.activeThreat
    location,      \* p.location
    protection,    \* part name -> BodyPart.Protection
    health,        \* part name -> SafeHealth.current
    lastUpdate,    \* part name -> SafeHealth.lastUpdate
    starts,        \* Start() calls made
    stops,         \* Stop() calls made, counted up to 2
    stopResult,    \* what the last Stop() call returned
    reports,       \* ReportThreat calls made
    rtPc,          \* where the ReportThreat call in progress stands
    rtThreat,      \* its argument
    rtWrote,       \* the processor fields it has written, in order
    rtDefLog,      \* critical part -> the defensive strategies it ran on it
    rtOffLog,      \* the attack strategies it ran, in order
    rtResult,      \* what the last ReportThreat call returned
    scanPc,        \* scanEnvironment goroutine -> where it stands
    scanThreats,   \* its local threats (the last ScanArea result)
    scanHighest,   \* its local highestThreat
    scanSeen,      \* the p.activeThreat it last loaded in processThreats, or
                   \* engaged in the moveAndEngage that rolled "eliminated"
    monRun,        \* monitorThreats goroutines running
    healthRun,     \* monitorHealth goroutines running
    lkProg,        \* thread -> the lock operations of the call it is in
    lkPos,         \* thread -> the next of them
    lkAsked,       \* thread -> it has called Lock/RLock and waits for it
    lkWriter,      \* lock -> the thread holding it for writing, or "none"
    lkReaders      \* lock -> the threads holding it for reading

\* The state of the library-level specifications: one Location.MoveTowards
\* walk, and one health tracker with its callers.
VARIABLES
    mvLoc,         \* the location the walk stands at
    mvTarget,      \* the target it moves towards
    mvSpeed,       \* the speed argument, in steps per tick
    mvDelta,       \* the deltaTime argument, in ticks
    mvPrev,        \* the location before the last MoveTowards call
    mvMoves,       \* MoveTowards calls made
    hState,        \* the tracker: SafeHealth.current and SafeHealth.lastUpdate
    hProt,         \* the Protection of the part that owns the tracker
    hWriter,       \* the caller holding SafeHealth.mu for writing, or "none"
    hReaders,      \* the callers holding it for reading
    tPc,           \* caller -> where its call stands
    tCall,         \* caller -> the operation called and its argument
    tLocal,        \* caller -> the tracker state it read under the lock
    tRet,          \* caller -> the value its call returned
    tPost,         \* caller -> the tracker state its call left
    tNth,          \* caller -> the Update calls that took the lock before it
    tRefRet,       \* caller -> what its call returns in the serial order
    refState,      \* the tracker state of the serial order
    updates,       \* Update calls that have taken the lock
    calls          \* calls made on the tracker

\* The state of the registry-level specification (the anatomy registry with
\* its callers) and of the catalog-level one (the strategy actions on a part).
VARIABLES
    regAnatomy,    \* the RobotAnatomy: its typed fields and its Parts map
    regObjects,    \* part object -> the BodyPart, its tracker included
    regWriter,     \* the caller holding RobotAnatomy.mu for writing, or "none"
    regReaders,    \* the callers holding it for reading
    rPc,           \* caller -> where its call stands
    rCall,         \* caller -> the operation called and its arguments
    rPre,          \* caller -> the part objects when its call took the lock
    rPost,         \* caller -> the part objects when its call returned
    rTodo,         \* caller -> the names GetHealthStatus has still to read
    rRet,          \* caller -> what its call returned
    rCalls,        \* calls made on the registry
    dfPart,        \* the part the strategy actions are tried on
    dfProt,        \* its Protection
    dfCall,        \* the last call made and its outcome
    dfCalls        \* calls made

registryVars == <<regAnatomy, regObjects, regWriter, regReaders, rPc, rCall, rPre, rPost,
                  rTodo, rRet, rCalls>>
defenseVars == <<dfPart, dfProt, dfCall, dfCalls>>
moveVars == <<mvLoc, mvTarget, mvSpeed, mvDelta, mvPrev, mvMoves>>
trackerVars == <<hState, hProt, hWriter, hReaders, tPc, tCall, tLocal, tRet, tPost,
                 tNth, tRefRet, refState, updates, calls>>
libVars == <<moveVars, trackerVars, registryVars, defenseVars>>

procVars == <<active, Mode, cancelled, activeThreat, location>>
partVars == <<protection, health, lastUpdate>>
callVars == <<starts, stops, stopResult, reports>>
rtVars == <<rtPc, rtThreat, rtWrote, rtDefLog, rtOffLog, rtResult>>
scanVars == <<scanPc, scanThreats, scanHighest, scanSeen>>
loopVars == <<monRun, healthRun>>
lockVars == <<lkProg, lkPos, lkAsked, lkWriter, lkReaders>>
vars == <<procVars, partVars, callVars, rtVars, scanVars, loopVars, crashed, lockVars,
         libVars>>

\* The scanEnvironment goroutines: main calls Start() once, and each Start()
\* spawns one.  MaxStarts is the number of Start() calls explored: as many
\* as scanPc has goroutines.
LoopIds == {1}
MaxStarts == Cardinality(LoopIds)
NoDefLog == [ p \in GetCriticalParts |-> <<>> ]

\* The threads that take locks: two callers of the public operations, a
\* scanEnvironment goroutine and a monitorHealth goroutine.
LockThreads == {"caller1", "caller2", "scan", "health"}
\* Processor.status.mu, RobotAnatomy.mu and the SafeHealth.mu of each part.
TrackerLock(p) == [kind |-> "tracker", part |-> p]
StatusLock == [kind |-> "status", part |-> "-"]
RegistryLock == [kind |-> "registry", part |-> "-"]
Locks == {StatusLock, RegistryLock} \cup { TrackerLock(p) : p \in Parts }

\* The callers of the health tracker.
Callers == {"c1", "c2"}
NoCall == [op |-> "none", arg |-> F(0), time |-> 0]

\* No MoveTowards walk: the robot stands at the origin with nowhere to go.
MoveIdle ==
    /\ mvLoc = Location(0, 0, 0)
    /\ mvTarget = Location(0, 0, 0)
    /\ mvSpeed = 0
    /\ mvDelta = 0
    /\ mvPrev = Location(0, 0, 0)
    /\ mvMoves = 0

\* NewBodyPart with protection prot: a new tracker, nobody calling it.
NewBodyPart(prot) ==
    /\ hState = NewSafeHealth
    /\ hProt = prot
    /\ hWriter = "none"
    /\ hReaders = {}
    /\ tPc = [ t \in Callers |-> "idle" ]
    /\ tCall = [ t \in Callers |-> NoCall ]
    /\ tLocal = [ t \in Callers |-> NewSafeHealth ]
    /\ tRet = [ t \in Callers |-> F(0) ]
    /\ tPost = [ t \in Callers |-> NewSafeHealth ]
    /\ tNth = [ t \in Callers |-> 0 ]
    /\ tRefRet = [ t \in Callers |-> F(0) ]
    /\ refState = NewSafeHealth
    /\ updates = 0
    /\ calls = 0

\* ----------------------------------------------------- anatomy registry
\* The six BodyPart objects NewRobotAnatomy allocates, in the order of
\* allocation, and the names it gives them.
PartObjects == 1..6
ObjectNames == <<"head", "body", "arm_left", "arm_right", "leg_left", "leg_right">>

\* Dimensions.Weight of the part NewRobotAnatomy builds under this name, in kg.
PartWeight(name) ==
    CASE PartType(name) = "head" -> 15
      [] PartType(name) = "body" -> 45
      [] PartType(name) = "arm" -> 20
      [] OTHER -> 25

\* NewRobotAnatomy with the entry "arm_right" bound to the left arm.
NewRobotAnatomyOneArm ==
    [Head |-> 1, Body |-> 2, Arms |-> <<3, 4>>, Legs |-> <<5, 6>>,
     Parts |-> [ n \in Parts |->
                   IF n = "arm_right" THEN 3
                   ELSE CHOOSE o \in PartObjects : ObjectNames[o] = n ]]

\* NewRobotAnatomy: the typed fields and the Parts map, each naming objects.
NewRobotAnatomy ==
    [Head |-> 1, Body |-> 2, Arms |-> <<3, 4>>, Legs |-> <<5, 6>>,
     Parts |-> [ n \in Parts |-> CHOOSE o \in PartObjects : ObjectNames[o] = n ]]

\* NewBodyParts with every part flagged critical.
NewBodyPartsAllCritical ==
    [ o \in PartObjects |->
        [Name |-> ObjectNames[o], Type |-> PartType(ObjectNames[o]),
         IsCritical |-> TRUE, Weight |-> PartWeight(ObjectNames[o]),
         Protection |-> DefaultProtection(PartType(ObjectNames[o])),
         health |-> NewSafeHealth] ]

\* The NewBodyPart calls of NewRobotAnatomy: the six objects.
NewBodyParts ==
    [ o \in PartObjects |->
        [Name |-> ObjectNames[o], Type |-> PartType(ObjectNames[o]),
         IsCritical |-> IsCritical(ObjectNames[o]), Weight |-> PartWeight(ObjectNames[o]),
         Protection |-> DefaultProtection(PartType(ObjectNames[o])),
         health |-> NewSafeHealth] ]

\* The body of RobotAnatomy.GetPart(name): the object (0 for nil) and the error.
GetPart(anatomy, name) ==
    IF name \notin DOMAIN anatomy.Parts THEN [part |-> 0, err |-> "not found"]
    ELSE [part |-> anatomy.Parts[name], err |-> "nil"]

\* UpdatePart without the check of the name: the damage of an unknown name
\* goes to the head.
UpdatePartUnchecked(anatomy, objs, name, damage) ==
    LET o == IF name \in DOMAIN anatomy.Parts THEN anatomy.Parts[name] ELSE anatomy.Head
    IN  [objs |-> [objs EXCEPT ![o].health =
                       TakeDamage(objs[o].Protection, objs[o].health, damage).h],
         err |-> "nil"]

\* The body of RobotAnatomy.UpdatePart(name, damage): the objects afterwards
\* and the error.
UpdatePart(anatomy, objs, name, damage) ==
    IF name \notin DOMAIN anatomy.Parts THEN [objs |-> objs, err |-> "not found"]
    ELSE LET o == anatomy.Parts[name]
         IN  [objs |-> [objs EXCEPT ![o].health =
                            TakeDamage(objs[o].Protection, objs[o].health, damage).h],
              err |-> "nil"]

\* The body of RobotAnatomy.GetCriticalParts: the objects flagged critical.
CriticalPartsOf(anatomy, objs) ==
    { anatomy.Parts[n] : n \in { m \in DOMAIN anatomy.Parts : objs[anatomy.Parts[m]].IsCritical } }

\* The body of RobotAnatomy.CalculateTotalWeight: the weights of the map's
\* entries, added up.
RECURSIVE SumWeights(_, _, _)
SumWeights(anatomy, objs, names) ==
    IF names = {} THEN 0
    ELSE LET n == CHOOSE m \in names : TRUE
         IN  objs[anatomy.Parts[n]].Weight + SumWeights(anatomy, objs, names \ {n})
CalculateTotalWeight(anatomy, objs) == SumWeights(anatomy, objs, DOMAIN anatomy.Parts)

\* The body of RobotAnatomy.UpdateAllParts(currentTime).
UpdateAllParts(anatomy, objs, currentTime) ==
    [ o \in DOMAIN objs |->
        IF \E n \in DOMAIN anatomy.Parts : anatomy.Parts[n] = o
        THEN [objs[o] EXCEPT !.health = Update(@, currentTime).h]
        ELSE objs[o] ]

\* The body of RobotAnatomy.IsPartCritical(name).
IsPartCritical(anatomy, objs, name) ==
    IF name \notin DOMAIN anatomy.Parts THEN FALSE
    ELSE objs[anatomy.Parts[name]].IsCritical

\* What a call on the registry returned: the fields its operation uses.
NoResult == [err |-> "none", part |-> 0, parts |-> {}, weight |-> 0, critical |-> FALSE,
             status |-> <<>>]
NoRegistryCall == [op |-> "none", name |-> "-", damage |-> F(0), time |-> 0]

\* The registry after NewRobotAnatomy, nobody calling it.
RegistryIdle ==
    /\ regAnatomy = NewRobotAnatomy
    /\ regObjects = NewBodyParts
    /\ regWriter = "none"
    /\ regReaders = {}
    /\ rPc = [ t \in Callers |-> "idle" ]
    /\ rCall = [ t \in Callers |-> NoRegistryCall ]
    /\ rPre = [ t \in Callers |-> NewBodyParts ]
    /\ rPost = [ t \in Callers |-> NewBodyParts ]
    /\ rTodo = [ t \in Callers |-> <<>> ]
    /\ rRet = [ t \in Callers |-> NoResult ]
    /\ rCalls = 0

\* The last call made on the part under trial, and its outcome: the fields
\* its kind of call uses.
NoDefenseCall ==
    [kind |-> "none", strategy |-> "-", part |-> "-", threat |-> NoThreat,
     before |-> DefaultProtection("head"), res |-> "none", defense |-> <<>>,
     offense |-> <<>>, raw |-> F(0), start |-> F(0), damage |-> F(0)]
\* The part named part as NewBodyPart made it, no strategy action tried yet.
DefenseStart(part) ==
    /\ dfPart = part
    /\ dfProt = DefaultProtection(PartType(part))
    /\ dfCall = NoDefenseCall
    /\ dfCalls = 0

\* NewProcessor: the processor after construction.  No goroutine runs yet.
NewProcessor ==
    /\ active = FALSE
    /\ Mode = "Normal"
    /\ cancelled = FALSE
    /\ crashed = FALSE
    /\ activeThreat = NoThreat
    /\ location = Loc(0)
    /\ protection = [ p \in Parts |-> DefaultProtection(PartType(p)) ]
    /\ health = [ p \in Parts |-> MaxHealth ]
    /\ lastUpdate = [ p \in Parts |-> 0 ]
    /\ starts = 0
    /\ stops = 0
    /\ stopResult = "none"
    /\ reports = 0
    /\ rtPc = "idle"
    /\ rtThreat = NoThreat
    /\ rtWrote = <<>>
    /\ rtDefLog = NoDefLog
    /\ rtOffLog = <<>>
    /\ rtResult = "none"
    /\ scanPc = [ i \in LoopIds |-> "none" ]
    /\ scanThreats = [ i \in LoopIds |-> <<>> ]
    /\ scanHighest = [ i \in LoopIds |-> NoThreat ]
    /\ scanSeen = [ i \in LoopIds |-> NoThreat ]
    /\ monRun = 0
    /\ healthRun = 0
    /\ lkProg = [ t \in LockThreads |-> <<>> ]
    /\ lkPos = [ t \in LockThreads |-> 1 ]
    /\ lkAsked = [ t \in LockThreads |-> FALSE ]
    /\ lkWriter = [ l \in Locks |-> "none" ]
    /\ lkReaders = [ l \in Locks |-> {} ]

\* The state after construction: the processor, and the library-level
\* specifications at rest.
Init ==
    /\ NewProcessor
    /\ MoveIdle
    /\ NewBodyPart(DefaultProtection("head"))
    /\ RegistryIdle
    /\ DefenseStart("head")

\* ------------------------------------------------------- Start and Stop
\* Processor.Start: active := true under the status lock, then the three
\* goroutines are spawned.  Nothing stops a second call.
Start ==
    /\ ~crashed
    /\ starts < Cardinality(DOMAIN scanPc)
    /\ starts' = starts + 1
    /\ active' = TRUE
    /\ scanPc' = [scanPc EXCEPT ![starts + 1] = "select"]
    /\ monRun' = monRun + 1
    /\ healthRun' = healthRun + 1
    /\ UNCHANGED <<Mode, cancelled, activeThreat, location, partVars, stops,
                   stopResult, reports, rtVars, scanThreats, scanHighest, scanSeen,
                   crashed>>
    /\ UNCHANGED <<lockVars, libVars>>

\* A Stop that refuses a processor that is not active.
StopOnlyWhenActive ==
    /\ ~crashed
    /\ active' = FALSE
    /\ cancelled' = (cancelled \/ active)
    /\ stops' = Min(stops + 1, 2)
    /\ stopResult' = IF active THEN "nil" ELSE "error"
    /\ UNCHANGED <<Mode, activeThreat, location, partVars, starts, reports,
                   rtVars, scanVars, loopVars, crashed>>
    /\ UNCHANGED <<lockVars, libVars>>

\* Processor.Stop: active := false under the status lock, then p.cancel();
\* it returns nil.
Stop ==
    /\ ~crashed
    /\ active' = FALSE
    /\ cancelled' = TRUE
    /\ stops' = Min(stops + 1, 2)
    /\ stopResult' = "nil"
    /\ UNCHANGED <<Mode, activeThreat, location, partVars, starts, reports,
                   rtVars, scanVars, loopVars, crashed>>
    /\ UNCHANGED <<lockVars, libVars>>

\* The parent context handed to NewProcessor is cancelled (main's cancel).
ParentCancel ==
    /\ ~crashed
    /\ ~cancelled
    /\ cancelled' = TRUE
    /\ UNCHANGED <<active, Mode, activeThreat, location, partVars, callVars,
                   rtVars, scanVars, loopVars, crashed>>
    /\ UNCHANGED <<lockVars, libVars>>

\* --------------------------------------------------------- ReportThreat
\* ReportThreat without the check of line 268: the call goes on although the
\* processor is not active.
ReportThreatUnchecked ==
    /\ ~crashed
    /\ rtPc = "idle"
    /\ reports < MaxReports
    /\ ~active
    /\ \E t \in ReportedThreats(reports + 1) : rtThreat' = t
    /\ reports' = reports + 1
    /\ rtPc' = "set_threat"
    /\ rtResult' = "pending"
    /\ UNCHANGED <<procVars, partVars, starts, stops, stopResult, rtWrote, rtDefLog,
                   rtOffLog, scanVars, loopVars, crashed>>
    /\ UNCHANGED <<lockVars, libVars>>

\* ReportThreat, line 268: the processor is not active: an error, nothing else.
ReportThreatInactive ==
    /\ ~crashed
    /\ rtPc = "idle"
    /\ reports < MaxReports
    /\ ~active
    /\ reports' = reports + 1
    /\ rtResult' = "error"
    /\ UNCHANGED <<procVars, partVars, starts, stops, stopResult, rtPc, rtThreat,
                   rtWrote, rtDefLog, rtOffLog, scanVars, loopVars, crashed>>
    /\ UNCHANGED <<lockVars, libVars>>

\* ReportThreat, lines 268-273: the processor is active, the threat is logged.
ReportThreatBegin ==
    /\ ~crashed
    /\ rtPc = "idle"
    /\ reports < MaxReports
    /\ active
    /\ \E t \in ReportedThreats(reports + 1) : rtThreat' = t
    /\ reports' = reports + 1
    /\ rtPc' = "set_threat"
    /\ rtResult' = "pending"
    /\ rtWrote' = <<>>
    /\ rtDefLog' = NoDefLog
    /\ rtOffLog' = <<>>
    /\ UNCHANGED <<procVars, partVars, starts, stops, stopResult, scanVars, loopVars,
                   crashed>>
    /\ UNCHANGED <<lockVars, libVars>>

\* ReportThreat, line 276: p.activeThreat = &threat, outside the status lock.
ReportThreatSetThreat ==
    /\ ~crashed
    /\ rtPc = "set_threat"
    /\ activeThreat' = rtThreat
    /\ rtWrote' = Append(rtWrote, "activeThreat")
    /\ rtPc' = "set_mode"
    /\ UNCHANGED <<active, Mode, cancelled, location, partVars, callVars, rtThreat,
                   rtDefLog, rtOffLog, rtResult, scanVars, loopVars, crashed>>
    /\ UNCHANGED <<lockVars, libVars>>

\* ReportThreat, lines 277-279: Mode = Combat under the status lock.
ReportThreatSetMode ==
    /\ ~crashed
    /\ rtPc = "set_mode"
    /\ Mode' = "Combat"
    /\ rtWrote' = Append(rtWrote, "Mode")
    /\ rtPc' = "defend"
    /\ UNCHANGED <<active, cancelled, activeThreat, location, partVars, callVars,
                   rtThreat, rtDefLog, rtOffLog, rtResult, scanVars, loopVars, crashed>>
    /\ UNCHANGED <<lockVars, libVars>>

\* ReportThreat, lines 283-295: the defensive strategies of every critical
\* part.  The parts are independent of each other, so the order in which the
\* part map is iterated does not show.
ReportThreatDefend ==
    /\ ~crashed
    /\ rtPc = "defend"
    /\ protection' = DefendAll(protection, rtThreat)
    /\ rtDefLog' = [ p \in GetCriticalParts |->
                       RunDefensive(GetDefensiveStrategies(p), p, protection[p],
                                    rtThreat, <<>>).events ]
    /\ rtPc' = "attack"
    /\ UNCHANGED <<procVars, health, lastUpdate, callVars, rtThreat, rtWrote,
                   rtOffLog, rtResult, scanVars, loopVars, crashed>>
    /\ UNCHANGED <<lockVars, libVars>>

\* ReportThreat returning after the arms, lines 311-318 left out.
ReportThreatAttackArmsOnly ==
    /\ ~crashed
    /\ rtPc = "attack"
    /\ rtOffLog' = RunOffensive(Arms[1], rtThreat) \o RunOffensive(Arms[2], rtThreat)
    /\ rtPc' = "return"
    /\ UNCHANGED <<procVars, partVars, callVars, rtThreat, rtWrote, rtDefLog,
                   rtResult, scanVars, loopVars, crashed>>
    /\ UNCHANGED <<lockVars, libVars>>

\* ReportThreat, lines 299-318: the attack strategies of each arm, then of
\* the body.
ReportThreatAttack ==
    /\ ~crashed
    /\ rtPc = "attack"
    /\ rtOffLog' = RunOffensive(Arms[1], rtThreat) \o RunOffensive(Arms[2], rtThreat)
                     \o RunOffensive("body", rtThreat)
    /\ rtPc' = "return"
    /\ UNCHANGED <<procVars, partVars, callVars, rtThreat, rtWrote, rtDefLog,
                   rtResult, scanVars, loopVars, crashed>>
    /\ UNCHANGED <<lockVars, libVars>>

\* ReportThreat, line 320: return nil.
ReportThreatReturn ==
    /\ ~crashed
    /\ rtPc = "return"
    /\ rtResult' = "nil"
    /\ rtPc' = "idle"
    /\ rtThreat' = NoThreat
    /\ UNCHANGED <<procVars, partVars, callVars, rtWrote, rtDefLog, rtOffLog,
                   scanVars, loopVars, crashed>>
    /\ UNCHANGED <<lockVars, libVars>>

ReportThreat ==
    \/ ReportThreatInactive
    \/ ReportThreatBegin
    \/ ReportThreatSetThreat
    \/ ReportThreatSetMode
    \/ ReportThreatDefend
    \/ ReportThreatAttack
    \/ ReportThreatReturn

\* ------------------------------------------------------- scanEnvironment
\* The last threat of the highest severity (">=" for ">" in line 403).
RECURSIVE HighestOrLaterFrom(_, _, _)
HighestOrLaterFrom(threats, best, bestSeverity) ==
    IF threats = <<>> THEN best
    ELSE IF Head(threats).Severity >= bestSeverity
         THEN HighestOrLaterFrom(Tail(threats), Head(threats), Head(threats).Severity)
         ELSE HighestOrLaterFrom(Tail(threats), best, bestSeverity)
HighestOrLaterThreat(threats) == HighestOrLaterFrom(threats, NoThreat, 0 - 1)

\* processThreats, lines 399-411: the first threat of the highest severity
\* (a later one replaces the best so far only when strictly more severe).
RECURSIVE HighestFrom(_, _, _)
HighestFrom(threats, best, bestSeverity) ==
    IF threats = <<>> THEN best
    ELSE IF Head(threats).Severity > bestSeverity
         THEN HighestFrom(Tail(threats), Head(threats), Head(threats).Severity)
         ELSE HighestFrom(Tail(threats), best, bestSeverity)
HighestThreat(threats) == HighestFrom(threats, NoThreat, 0 - 1)

\* shouldEngageProactively(threat), with p.location = loc.
shouldEngageProactively(threat, loc) ==
    \/ threat.Severity >= 6
    \/ /\ ~threat.Location.nan
       /\ ~loc.nan
       /\ CalculateDistance(threat.Location, loc) < 30 * StepsPerMetre
       /\ threat.Severity >= 3

\* A movement tick moves the robot by one step at most: ticks are explored
\* while that keeps the coordinate within -MaxCoord .. MaxCoord.
InBounds(loc) == loc.nan \/ Abs(loc.x) < MaxCoord

ScanBackToSelect(i) ==
    /\ scanPc' = [scanPc EXCEPT ![i] = "select"]
    /\ scanThreats' = [scanThreats EXCEPT ![i] = <<>>]
    /\ scanHighest' = [scanHighest EXCEPT ![i] = NoThreat]
    /\ scanSeen' = [scanSeen EXCEPT ![i] = NoThreat]

\* A panic in goroutine i ends the process.
Panic(i) ==
    /\ crashed' = TRUE
    /\ scanPc' = [scanPc EXCEPT ![i] = "panic"]
    /\ UNCHANGED <<scanThreats, scanHighest, scanSeen>>

\* scanEnvironment, lines 382-383: the scan ticker fired, ScanArea(p.location).
ScanTick(i) ==
    /\ ~crashed
    /\ scanPc[i] = "select"
    /\ \E threats \in ScanArea(location) :
         scanThreats' = [scanThreats EXCEPT ![i] = threats]
    /\ scanPc' = [scanPc EXCEPT ![i] = "scanned"]
    /\ UNCHANGED <<procVars, partVars, callVars, rtVars, scanHighest, scanSeen,
                   loopVars, crashed>>
    /\ UNCHANGED <<lockVars, libVars>>

\* A processThreats that, nothing being scanned, drops the active threat.
ProcessThreatsEmptyClears(i) ==
    /\ ~crashed
    /\ scanPc[i] = "scanned"
    /\ Len(scanThreats[i]) = 0
    /\ activeThreat' = NoThreat
    /\ Mode' = IF activeThreat # NoThreat THEN "Normal" ELSE Mode
    /\ ScanBackToSelect(i)
    /\ UNCHANGED <<active, cancelled, location, partVars, callVars, rtVars, loopVars,
                   crashed>>
    /\ UNCHANGED <<lockVars, libVars>>

\* processThreats, lines 395-397: nothing was scanned, return.
ProcessThreatsEmpty(i) ==
    /\ ~crashed
    /\ scanPc[i] = "scanned"
    /\ Len(scanThreats[i]) = 0
    /\ ScanBackToSelect(i)
    /\ UNCHANGED <<procVars, partVars, callVars, rtVars, loopVars, crashed>>
    /\ UNCHANGED <<lockVars, libVars>>

\* processThreats, lines 399-414: the highest threat is found, then
\* p.activeThreat is loaded (outside the lock) and compared with nil.
ProcessThreatsCheck(i) ==
    /\ ~crashed
    /\ scanPc[i] = "scanned"
    /\ Len(scanThreats[i]) # 0
    /\ scanHighest' = [scanHighest EXCEPT ![i] = HighestThreat(scanThreats[i])]
    /\ scanSeen' = [scanSeen EXCEPT ![i] = activeThreat]
    /\ scanPc' = [scanPc EXCEPT ![i] =
                    IF HighestThreat(scanThreats[i]) = NoThreat THEN "pt_keep"
                    ELSE IF activeThreat = NoThreat THEN "pt_set"
                    ELSE "pt_severity"]
    /\ UNCHANGED <<procVars, partVars, callVars, rtVars, scanThreats, loopVars, crashed>>
    /\ UNCHANGED <<lockVars, libVars>>

\* ProcessThreatsSeverity with ">=" for ">" in line 413: a scanned threat as
\* severe as the active one replaces it.
ProcessThreatsSeverityOrEqual(i) ==
    /\ ~crashed
    /\ scanPc[i] = "pt_severity"
    /\ IF activeThreat = NoThreat
       THEN Panic(i)
       ELSE /\ scanSeen' = [scanSeen EXCEPT ![i] = activeThreat]
            /\ scanPc' = [scanPc EXCEPT ![i] =
                            IF scanHighest[i].Severity >= activeThreat.Severity
                            THEN "pt_set" ELSE "pt_keep"]
            /\ UNCHANGED <<scanThreats, scanHighest, crashed>>
    /\ UNCHANGED <<procVars, partVars, callVars, rtVars, loopVars>>
    /\ UNCHANGED <<lockVars, libVars>>

\* processThreats, line 414: p.activeThreat is loaded again for its Severity;
\* nil by now, the load panics.
ProcessThreatsSeverity(i) ==
    /\ ~crashed
    /\ scanPc[i] = "pt_severity"
    /\ IF activeThreat = NoThreat
       THEN Panic(i)
       ELSE /\ scanSeen' = [scanSeen EXCEPT ![i] = activeThreat]
            /\ scanPc' = [scanPc EXCEPT ![i] =
                            IF scanHighest[i].Severity > activeThreat.Severity
                            THEN "pt_set" ELSE "pt_keep"]
            /\ UNCHANGED <<scanThreats, scanHighest, crashed>>
    /\ UNCHANGED <<procVars, partVars, callVars, rtVars, loopVars>>
    /\ UNCHANGED <<lockVars, libVars>>

\* processThreats, line 421: the active threat is kept, return.
ProcessThreatsKeep(i) ==
    /\ ~crashed
    /\ scanPc[i] = "pt_keep"
    /\ ScanBackToSelect(i)
    /\ UNCHANGED <<procVars, partVars, callVars, rtVars, loopVars, crashed>>
    /\ UNCHANGED <<lockVars, libVars>>

\* processThreats, line 415: p.activeThreat = highestThreat, outside the lock.
ProcessThreatsSet(i) ==
    /\ ~crashed
    /\ scanPc[i] = "pt_set"
    /\ activeThreat' = scanHighest[i]
    /\ scanPc' = [scanPc EXCEPT ![i] = "pt_mode"]
    /\ UNCHANGED <<active, Mode, cancelled, location, partVars, callVars, rtVars,
                   scanThreats, scanHighest, scanSeen, loopVars, crashed>>
    /\ UNCHANGED <<lockVars, libVars>>

\* A processThreats that enters Emergency for the threat it has set.
ProcessThreatsModeEmergency(i) ==
    /\ ~crashed
    /\ scanPc[i] = "pt_mode"
    /\ Mode' = "Emergency"
    /\ ScanBackToSelect(i)
    /\ UNCHANGED <<active, cancelled, activeThreat, location, partVars, callVars,
                   rtVars, loopVars, crashed>>
    /\ UNCHANGED <<lockVars, libVars>>

\* processThreats, lines 416-418: Mode = Combat under the status lock.
ProcessThreatsMode(i) ==
    /\ ~crashed
    /\ scanPc[i] = "pt_mode"
    /\ Mode' = "Combat"
    /\ ScanBackToSelect(i)
    /\ UNCHANGED <<active, cancelled, activeThreat, location, partVars, callVars,
                   rtVars, loopVars, crashed>>
    /\ UNCHANGED <<lockVars, libVars>>

processThreats(i) ==
    \/ ProcessThreatsEmpty(i)
    \/ ProcessThreatsCheck(i)
    \/ ProcessThreatsSeverity(i)
    \/ ProcessThreatsKeep(i)
    \/ ProcessThreatsSet(i)
    \/ ProcessThreatsMode(i)

\* moveAndEngage rolls rand.Float64() < 0.1 at its end: the pc after a branch.
\* The threat the branch engaged is remembered for the elimination.
AfterBranch(i, eliminate) ==
    /\ scanPc' = [scanPc EXCEPT ![i] = IF eliminate THEN "me_clear" ELSE "select"]
    /\ scanSeen' = [scanSeen EXCEPT ![i] = IF eliminate THEN activeThreat ELSE NoThreat]
    /\ UNCHANGED <<scanThreats, scanHighest>>

\* scanEnvironment, lines 385-387, and moveAndEngage, line 425: the movement
\* ticker fired and p.activeThreat, loaded outside the lock, is not nil.
\* (With a nil p.activeThreat the tick does nothing.)
MovementTick(i) ==
    /\ ~crashed
    /\ scanPc[i] = "select"
    /\ activeThreat # NoThreat
    /\ InBounds(location)
    /\ scanPc' = [scanPc EXCEPT ![i] = "me_distance"]
    /\ UNCHANGED <<procVars, partVars, callVars, rtVars, scanThreats, scanHighest,
                   scanSeen, loopVars, crashed>>
    /\ UNCHANGED <<lockVars, libVars>>

\* moveAndEngage, lines 429-443: the distance to p.activeThreat.Location
\* picks the branch; a nil p.activeThreat panics.
MoveAndEngageDistance(i) ==
    /\ ~crashed
    /\ scanPc[i] = "me_distance"
    /\ IF activeThreat = NoThreat
       THEN Panic(i)
       ELSE /\ scanPc' = [scanPc EXCEPT ![i] =
                            CASE Branch(location, activeThreat.Location) = "engage"
                                   -> "me_engage"
                              [] Branch(location, activeThreat.Location) = "move"
                                   -> "me_move"
                              [] OTHER -> "me_back"]
            /\ UNCHANGED <<scanThreats, scanHighest, scanSeen, crashed>>
    /\ UNCHANGED <<procVars, partVars, callVars, rtVars, loopVars>>
    /\ UNCHANGED <<lockVars, libVars>>

\* moveAndEngage, line 433: engageTarget(p.activeThreat) at the engagement
\* distance.  engageTarget takes a nil threat as far as DistributeShieldPower.
MoveAndEngageAttack(i) ==
    /\ ~crashed
    /\ scanPc[i] = "me_engage"
    /\ IF activeThreat = NoThreat
       THEN /\ Panic(i)
            /\ protection' \in DefendAllPanics(protection)
       ELSE /\ protection' = DefendAll(protection, activeThreat)
            /\ \E eliminate \in BOOLEAN : AfterBranch(i, eliminate)
            /\ UNCHANGED crashed
    /\ UNCHANGED <<procVars, health, lastUpdate, callVars, rtVars, loopVars>>
    /\ UNCHANGED <<lockVars, libVars>>

\* moveAndEngage, lines 436-442, and moveTowardsTarget: one step towards
\* p.activeThreat.Location, then a preemptive strike when
\* shouldEngageProactively says so.  p.location is written outside the lock.
MoveAndEngageApproach(i) ==
    /\ ~crashed
    /\ scanPc[i] = "me_move"
    /\ IF activeThreat = NoThreat
       THEN /\ Panic(i)
            /\ UNCHANGED <<location, protection>>
       ELSE /\ location' = MoveTowards(location, activeThreat.Location)
            /\ protection' = IF shouldEngageProactively(activeThreat, location')
                             THEN DefendAll(protection, activeThreat)
                             ELSE protection
            /\ \E eliminate \in BOOLEAN : AfterBranch(i, eliminate)
            /\ UNCHANGED crashed
    /\ UNCHANGED <<active, Mode, cancelled, activeThreat, health, lastUpdate,
                   callVars, rtVars, loopVars>>
    /\ UNCHANGED <<lockVars, libVars>>

\* moveAndEngage, lines 446-459: too close, one step towards the backup
\* position, then engageTarget(p.activeThreat).
MoveAndEngageBackUp(i) ==
    /\ ~crashed
    /\ scanPc[i] = "me_back"
    /\ IF activeThreat = NoThreat
       THEN /\ Panic(i)
            /\ UNCHANGED <<location, protection>>
       ELSE /\ location' = MoveTowards(location, BackupPos(location, activeThreat.Location))
            /\ protection' = DefendAll(protection, activeThreat)
            /\ \E eliminate \in BOOLEAN : AfterBranch(i, eliminate)
            /\ UNCHANGED crashed
    /\ UNCHANGED <<active, Mode, cancelled, activeThreat, health, lastUpdate,
                   callVars, rtVars, loopVars>>
    /\ UNCHANGED <<lockVars, libVars>>

\* moveAndEngage, lines 465-466: the roll said eliminated: p.activeThreat.ID is
\* logged (a nil p.activeThreat panics) and p.activeThreat = nil, outside
\* the lock.
MoveAndEngageClear(i) ==
    /\ ~crashed
    /\ scanPc[i] = "me_clear"
    /\ IF activeThreat = NoThreat
       THEN /\ Panic(i)
            /\ UNCHANGED activeThreat
       ELSE /\ activeThreat' = NoThreat
            /\ scanPc' = [scanPc EXCEPT ![i] = "me_mode"]
            /\ UNCHANGED <<scanThreats, scanHighest, scanSeen, crashed>>
    /\ UNCHANGED <<active, Mode, cancelled, location, partVars, callVars, rtVars,
                   loopVars>>
    /\ UNCHANGED <<lockVars, libVars>>

\* moveAndEngage, lines 467-469: Mode = Normal under the status lock.
MoveAndEngageMode(i) ==
    /\ ~crashed
    /\ scanPc[i] = "me_mode"
    /\ Mode' = "Normal"
    /\ ScanBackToSelect(i)
    /\ UNCHANGED <<active, cancelled, activeThreat, location, partVars, callVars,
                   rtVars, loopVars, crashed>>
    /\ UNCHANGED <<lockVars, libVars>>

moveAndEngage(i) ==
    \/ MoveAndEngageDistance(i)
    \/ MoveAndEngageAttack(i)
    \/ MoveAndEngageApproach(i)
    \/ MoveAndEngageBackUp(i)
    \/ MoveAndEngageClear(i)
    \/ MoveAndEngageMode(i)

\* A scanEnvironment that looks at ctx.Done() only while no threat is active.
ScanExitWhenIdle(i) ==
    /\ ~crashed
    /\ scanPc[i] = "select"
    /\ cancelled
    /\ activeThreat = NoThreat
    /\ scanPc' = [scanPc EXCEPT ![i] = "exited"]
    /\ UNCHANGED <<procVars, partVars, callVars, rtVars, scanThreats, scanHighest,
                   scanSeen, loopVars, crashed>>
    /\ UNCHANGED <<lockVars, libVars>>

\* scanEnvironment, lines 380-381: ctx is done, the goroutine returns.
ScanExit(i) ==
    /\ ~crashed
    /\ scanPc[i] = "select"
    /\ cancelled
    /\ scanPc' = [scanPc EXCEPT ![i] = "exited"]
    /\ UNCHANGED <<procVars, partVars, callVars, rtVars, scanThreats, scanHighest,
                   scanSeen, loopVars, crashed>>
    /\ UNCHANGED <<lockVars, libVars>>

scanEnvironment(i) ==
    \/ ScanTick(i)
    \/ processThreats(i)
    \/ MovementTick(i)
    \/ moveAndEngage(i)
    \/ ScanExit(i)

\* --------------------------------------------- monitorThreats, monitorHealth
\* monitorThreats, lines 332-333: a tick, nothing to do.
MonitorThreatsTick ==
    /\ ~crashed
    /\ monRun > 0
    /\ UNCHANGED vars

\* monitorThreats, lines 330-331: ctx is done, one goroutine returns.
MonitorThreatsExit ==
    /\ ~crashed
    /\ monRun > 0
    /\ cancelled
    /\ monRun' = monRun - 1
    /\ UNCHANGED <<procVars, partVars, callVars, rtVars, scanVars, healthRun, crashed>>
    /\ UNCHANGED <<lockVars, libVars>>

\* SafeHealth.Update(currentTime) on a tracker with the given current health
\* and lastUpdate: the first call records the time; later ones regenerate
\* regenRate (0.1) * deltaTime * maximum, deltaTime being the difference of
\* the two times divided by 1000.
SafeHealthUpdate(current, last, currentTime) ==
    IF last = 0 THEN [current |-> current, lastUpdate |-> currentTime]
    ELSE IF currentTime - last <= 0 THEN [current |-> current, lastUpdate |-> last]
    ELSE [current |-> Min(MaxHealth,
                          current + ((currentTime - last) * MaxHealth) \div (10 * 1000)),
          lastUpdate |-> currentTime]

\* monitorHealth, lines 347-352: UpdateAllParts(time.Now().Unix()), then the
\* health snapshot is logged.
MonitorHealthTick ==
    /\ ~crashed
    /\ healthRun > 0
    /\ \E now \in 1..MaxTime :
         /\ health' = [ p \in Parts |->
                          SafeHealthUpdate(health[p], lastUpdate[p], now).current ]
         /\ lastUpdate' = [ p \in Parts |->
                              SafeHealthUpdate(health[p], lastUpdate[p], now).lastUpdate ]
    /\ UNCHANGED <<procVars, protection, callVars, rtVars, scanVars, loopVars, crashed>>
    /\ UNCHANGED <<lockVars, libVars>>

\* monitorHealth, lines 345-346: ctx is done, one goroutine returns.
MonitorHealthExit ==
    /\ ~crashed
    /\ healthRun > 0
    /\ cancelled
    /\ healthRun' = healthRun - 1
    /\ UNCHANGED <<procVars, partVars, callVars, rtVars, scanVars, monRun, crashed>>
    /\ UNCHANGED <<lockVars, libVars>>

\* ------------------------------------------------- accesses to shared fields
\* An access to a field of the processor, and whether p.status.mu is held.
Access(field, write, locked) == [field |-> field, write |-> write, locked |-> locked]

\* The accesses the ReportThreat call in progress makes next: line 276
\* writes p.activeThreat before the lock is taken, lines 277-279 write
\* p.status.Mode with the lock held.
ReportThreatAccesses ==
    CASE rtPc = "set_threat" -> { Access("activeThreat", TRUE, FALSE) }
      [] rtPc = "set_mode" -> { Access("Mode", TRUE, TRUE) }
      [] OTHER -> {}

\* The accesses scanEnvironment goroutine i makes next.  No line of
\* scanEnvironment, processThreats, moveAndEngage or moveTowardsTarget holds
\* the lock around p.activeThreat or p.location; the lock is held for
\* p.status.Mode alone (lines 416-418, 467-469).
ScanAccesses(i) ==
    CASE scanPc[i] = "select" ->
           { Access("location", FALSE, FALSE), Access("activeThreat", FALSE, FALSE) }
      [] scanPc[i] \in {"scanned", "pt_severity", "me_engage"} ->
           { Access("activeThreat", FALSE, FALSE) }
      [] scanPc[i] = "pt_set" -> { Access("activeThreat", TRUE, FALSE) }
      [] scanPc[i] \in {"pt_mode", "me_mode"} -> { Access("Mode", TRUE, TRUE) }
      [] scanPc[i] = "me_distance" ->
           { Access("activeThreat", FALSE, FALSE), Access("location", FALSE, FALSE) }
      [] scanPc[i] \in {"me_move", "me_back"} ->
           { Access("activeThreat", FALSE, FALSE), Access("location", FALSE, FALSE),
             Access("location", TRUE, FALSE) }
      [] scanPc[i] = "me_clear" ->
           { Access("activeThreat", FALSE, FALSE), Access("activeThreat", TRUE, FALSE) }
      [] OTHER -> {}

\* What a caller of GetActiveThreat (lines 262-264, no lock) or GetStatus
\* (lines 249-254, read lock) does at any moment.
GetterAccesses == { Access("activeThreat", FALSE, FALSE), Access("Mode", FALSE, TRUE) }

\* Two accesses by different threads conflict: the same field, one a write,
\* and not both under the lock.
Conflict(a, b) == a.field = b.field /\ (a.write \/ b.write) /\ ~(a.locked /\ b.locked)

\* ------------------------------------------------------ the specification
Next ==
    \/ Start
    \/ Stop
    \/ ParentCancel
    \/ ReportThreat
    \/ \E i \in LoopIds : scanEnvironment(i)
    \/ MonitorThreatsTick
    \/ MonitorThreatsExit
    \/ MonitorHealthTick
    \/ MonitorHealthExit

Spec == Init /\ [][Next]_vars

\* The scheduling the Go runtime gives the loops.  A goroutine that has
\* taken a tick runs the tick to its end (weak fairness of the steps of
\* processThreats and moveAndEngage).  Each loop comes back to its select
\* again and again, and a select with several ready cases picks one at
\* random: once ctx.Done() is ready it is picked sooner or later (strong
\* fairness of the exits).
FairSpec ==
    /\ Spec
    /\ \A i \in LoopIds :
          /\ WF_vars(processThreats(i) \/ moveAndEngage(i))
          /\ SF_vars(ScanExit(i))
    /\ SF_vars(MonitorThreatsExit)
    /\ SF_vars(MonitorHealthExit)

\* ------------------------------------------------------------- the locks
\* The lock operations of each function, in program order.  The three
\* locks are sync.RWMutex: Lock waits for the writer and all readers to
\* leave, RLock waits for the writer to leave and for no Lock call to be
\* waiting.
LockOp(op, lock) == [op |-> op, lock |-> lock]
Acquires == {"Lock", "RLock"}

\* Start (225-227), Stop (241-243), ReportThreat (277-279), processThreats
\* (416-418), moveAndEngage (467-469): status.mu.Lock() ... Unlock().
StatusWriteLocks == << LockOp("Lock", StatusLock), LockOp("Unlock", StatusLock) >>
\* GetStatus: status.mu.RLock(), defer RUnlock().
GetStatusLocks == << LockOp("RLock", StatusLock), LockOp("RUnlock", StatusLock) >>
\* GetPart, GetCriticalParts, CalculateTotalWeight, IsPartCritical:
\* ra.mu.RLock(), defer RUnlock(), nothing locked in between.
RegistryReadLocks == << LockOp("RLock", RegistryLock), LockOp("RUnlock", RegistryLock) >>

\* A range over the parts map visits the parts in an unspecified order: one
\* order and its reverse are explored.
PartOrder == <<"head", "body", "arm_left", "arm_right", "leg_left", "leg_right">>
ReversePartOrder == [ k \in 1..Len(PartOrder) |-> PartOrder[Len(PartOrder) + 1 - k] ]

\* SafeHealth.Update/Reduce (h.mu.Lock) or Get (h.mu.RLock) on each part in turn.
RECURSIVE EachTracker(_, _, _)
EachTracker(order, acquire, release) ==
    IF order = <<>> THEN <<>>
    ELSE << LockOp(acquire, TrackerLock(Head(order))),
            LockOp(release, TrackerLock(Head(order))) >>
           \o EachTracker(Tail(order), acquire, release)

\* UpdatePart with the tracker locked before the registry.
UpdatePartLocksTrackerFirst(p) ==
    << LockOp("Lock", TrackerLock(p)), LockOp("Lock", RegistryLock),
       LockOp("Unlock", RegistryLock), LockOp("Unlock", TrackerLock(p)) >>

\* RobotAnatomy.UpdatePart: ra.mu.Lock(), part.TakeDamage -> health.Reduce
\* (h.mu.Lock, Unlock), then the deferred ra.mu.Unlock().
UpdatePartLocks(p) ==
    << LockOp("Lock", RegistryLock), LockOp("Lock", TrackerLock(p)),
       LockOp("Unlock", TrackerLock(p)), LockOp("Unlock", RegistryLock) >>

\* RobotAnatomy.UpdateAllParts: ra.mu.Lock(), health.Update on every part,
\* then the deferred ra.mu.Unlock().
UpdateAllPartsLocks(order) ==
    << LockOp("Lock", RegistryLock) >> \o EachTracker(order, "Lock", "Unlock")
        \o << LockOp("Unlock", RegistryLock) >>

\* RobotAnatomy.GetHealthStatus: ra.mu.RLock(), part.GetHealth -> health.Get
\* (h.mu.RLock, RUnlock) on every part, then the deferred ra.mu.RUnlock().
GetHealthStatusLocks(order) ==
    << LockOp("RLock", RegistryLock) >> \o EachTracker(order, "RLock", "RUnlock")
        \o << LockOp("RUnlock", RegistryLock) >>

\* ReportThreat with status.mu held until GetCriticalParts has returned.
ReportThreatLocksHeld ==
    << LockOp("Lock", StatusLock) >> \o RegistryReadLocks
        \o << LockOp("Unlock", StatusLock) >>

\* ReportThreat: the status lock around the mode (277-279), then
\* GetCriticalParts (283); the strategies and p.anatomy.Arms/Body take no lock.
ReportThreatLocks == StatusWriteLocks \o RegistryReadLocks

\* A scan tick: processThreats takes the status lock when it sets a threat;
\* moveAndEngage calls GetCriticalParts (engageTarget, executePreemptiveStrike)
\* in every branch but a plain approach, then takes the status lock when
\* the threat is eliminated.
ScanTickLocks ==
    { StatusWriteLocks, RegistryReadLocks, RegistryReadLocks \o StatusWriteLocks }

\* A monitorHealth tick: UpdateAllParts, GetHealthStatus, then
\* IsPartCritical for the parts of the snapshot.  No lock is held from one
\* of these calls to the next, so each is a call of its own.
MonitorHealthLocks ==
    { UpdateAllPartsLocks(PartOrder), GetHealthStatusLocks(PartOrder), RegistryReadLocks }

\* The calls a thread may make: the goroutines what their loops call, one
\* caller the operations of the Processor, the other those of the registry
\* (GetAnatomy hands the registry out).
LockPrograms(t) ==
    CASE t = "scan" -> ScanTickLocks
      [] t = "health" -> MonitorHealthLocks
      [] t = "caller1" -> { StatusWriteLocks, GetStatusLocks, ReportThreatLocks }
      [] OTHER -> { RegistryReadLocks, UpdatePartLocks("body"),
                    GetHealthStatusLocks(ReversePartOrder) }

\* The operation thread t stands at, its locks held, and what keeps it waiting.
InCall(t) == lkProg[t] # <<>>
NextOp(t) == lkProg[t][lkPos[t]]
Holds(t, l) == lkWriter[l] = t \/ t \in lkReaders[l]
HeldBy(t) == { l \in Locks : Holds(t, l) }
WaitingWriters(l) ==
    { u \in LockThreads : InCall(u) /\ lkAsked[u] /\ NextOp(u) = LockOp("Lock", l) }
CanAcquire(t) ==
    LET l == NextOp(t).lock
    IN  IF NextOp(t).op = "Lock"
        THEN lkWriter[l] = "none" /\ lkReaders[l] = {}
        ELSE lkWriter[l] = "none" /\ WaitingWriters(l) = {}
Advance(t) ==
    /\ lkAsked' = [lkAsked EXCEPT ![t] = FALSE]
    /\ IF lkPos[t] = Len(lkProg[t])
       THEN lkProg' = [lkProg EXCEPT ![t] = <<>>] /\ lkPos' = [lkPos EXCEPT ![t] = 1]
       ELSE lkPos' = [lkPos EXCEPT ![t] = @ + 1] /\ UNCHANGED lkProg

mainVars == <<procVars, partVars, callVars, rtVars, scanVars, loopVars, crashed>>

\* Thread t enters a call.
LockCall(t) ==
    /\ ~InCall(t)
    /\ \E prog \in LockPrograms(t) : lkProg' = [lkProg EXCEPT ![t] = prog]
    /\ UNCHANGED <<lkPos, lkAsked, lkWriter, lkReaders, mainVars, libVars>>

\* Thread t calls Lock() or RLock().
LockRequest(t) ==
    /\ InCall(t)
    /\ NextOp(t).op \in Acquires
    /\ ~lkAsked[t]
    /\ lkAsked' = [lkAsked EXCEPT ![t] = TRUE]
    /\ UNCHANGED <<lkProg, lkPos, lkWriter, lkReaders, mainVars, libVars>>

\* The Lock() or RLock() of thread t returns.
LockAcquire(t) ==
    /\ InCall(t)
    /\ NextOp(t).op \in Acquires
    /\ lkAsked[t]
    /\ CanAcquire(t)
    /\ IF NextOp(t).op = "Lock"
       THEN lkWriter' = [lkWriter EXCEPT ![NextOp(t).lock] = t] /\ UNCHANGED lkReaders
       ELSE lkReaders' = [lkReaders EXCEPT ![NextOp(t).lock] = @ \cup {t}]
            /\ UNCHANGED lkWriter
    /\ Advance(t)
    /\ UNCHANGED <<mainVars, libVars>>

\* Thread t calls Unlock() or RUnlock().
LockRelease(t) ==
    /\ InCall(t)
    /\ NextOp(t).op \notin Acquires
    /\ IF NextOp(t).op = "Unlock"
       THEN lkWriter' = [lkWriter EXCEPT ![NextOp(t).lock] = "none"]
            /\ UNCHANGED lkReaders
       ELSE lkReaders' = [lkReaders EXCEPT ![NextOp(t).lock] = @ \ {t}]
            /\ UNCHANGED lkWriter
    /\ Advance(t)
    /\ UNCHANGED <<mainVars, libVars>>

LockNext ==
    \E t \in LockThreads :
        \/ LockCall(t)
        \/ LockRequest(t)
        \/ LockAcquire(t)
        \/ LockRelease(t)

LockSpec == Init /\ [][LockNext]_vars

\* ============================================================ properties
\* No processor operation is part-way through: no ReportThreat call is in
\* progress and every scanEnvironment goroutine waits in its select (or has
\* not been started, or has returned).
Quiescent ==
    /\ rtPc = "idle"
    /\ \A i \in LoopIds : scanPc[i] \in {"none", "select", "exited"}

\* C1: whenever no processor operation is part-way through, the mode is
\* Combat exactly when an active threat is set and Normal exactly when none
\* is set.
C1_ModeMatchesActiveThreat ==
    Quiescent =>
        /\ (Mode = "Combat") <=> (activeThreat # NoThreat)
        /\ (Mode = "Normal") <=> (activeThreat = NoThreat)

\* C2: a ReportThreat call that begins while the processor is not active
\* (never started, or stopped) returns an error and changes neither the
\* mode, nor the active threat, nor any part's health or protection.
C2_ReportThreatInactiveChangesNothing ==
    [][ (rtPc = "idle" /\ ~active /\ reports' = reports + 1) =>
            /\ rtResult' = "error"
            /\ rtPc' = "idle"
            /\ Mode' = Mode
            /\ activeThreat' = activeThreat
            /\ health' = health
            /\ protection' = protection ]_vars

\* C2 happened on a stopped processor that still holds an active threat.
C2_Witness ==
    /\ rtResult = "error"
    /\ stops > 0
    /\ ~active
    /\ activeThreat # NoThreat

\* The names of the strategies of a sequence of logged events.
StrategiesOf(events) == [ k \in 1..Len(events) |-> events[k].strategy ]
PartsOf(events) == [ k \in 1..Len(events) |-> events[k].part ]

\* Every defensive strategy of every critical part has run, in catalog order.
DefenceComplete ==
    \A p \in GetCriticalParts :
        /\ StrategiesOf(rtDefLog[p]) = GetDefensiveStrategies(p)
        /\ \A k \in 1..Len(rtDefLog[p]) : rtDefLog[p][k].part = p

\* Every attack strategy of each arm, then every attack strategy of the body.
OffenceComplete ==
    /\ PartsOf(rtOffLog) = <<"arm_left", "arm_right", "body", "body">>
    /\ StrategiesOf(rtOffLog) =
          GetOffensiveStrategies("arm_left") \o GetOffensiveStrategies("arm_right")
            \o GetOffensiveStrategies("body")

\* C3: ReportThreat on an active processor makes the reported threat the
\* active threat, then sets the mode to Combat, then runs every defensive
\* strategy of every critical part, then every attack strategy of each arm
\* and then of the body, and returns nil.
C3_ReportThreatSequence ==
    /\ [][ (rtPc = "idle" /\ active /\ reports' = reports + 1) =>
               (rtPc' = "set_threat" /\ rtThreat' # NoThreat /\ rtWrote' = <<>>
                  /\ rtDefLog' = NoDefLog /\ rtOffLog' = <<>>) ]_vars
    /\ [][ (rtWrote' # rtWrote /\ rtPc # "idle" /\ rtWrote = <<>>) =>
               (rtWrote' = <<"activeThreat">> /\ activeThreat' = rtThreat) ]_vars
    /\ [][ (rtWrote' # rtWrote /\ rtPc # "idle" /\ rtWrote # <<>>) =>
               (rtWrote' = <<"activeThreat", "Mode">> /\ Mode' = "Combat") ]_vars
    /\ [][ (rtDefLog' # rtDefLog /\ rtPc # "idle") =>
               (rtWrote = <<"activeThreat", "Mode">> /\ DefenceComplete'
                  /\ rtOffLog' = <<>>) ]_vars
    /\ [][ (rtOffLog' # rtOffLog /\ rtPc # "idle") =>
               (DefenceComplete /\ OffenceComplete') ]_vars
    /\ [][ (rtPc # "idle" /\ rtPc' = "idle") =>
               (rtResult' = "nil" /\ rtWrote = <<"activeThreat", "Mode">>
                  /\ DefenceComplete /\ OffenceComplete) ]_vars

\* C3 happened: a ReportThreat call returned nil and its threat is active.
C3_Witness ==
    /\ rtResult = "nil"
    /\ rtPc = "idle"
    /\ OffenceComplete
    /\ activeThreat.id.src = "report"
    /\ Mode = "Combat"

\* C5: a second or later Stop() returns nil and changes nothing: the
\* processor stays as the first call left it, inactive with ctx done.
C5_StopIdempotent ==
    /\ [][ stops' # stops => (stopResult' = "nil" /\ ~active' /\ cancelled') ]_vars
    /\ [][ (stops' # stops /\ stops >= 1 /\ ~active) =>
               UNCHANGED <<procVars, partVars, starts, reports, rtVars, scanVars,
                           loopVars, crashed>> ]_vars
    /\ [](stops >= 1 => cancelled)

\* C5 happened: Stop() has been called twice.
C5_Witness ==
    /\ stops = 2
    /\ stopResult = "nil"
    /\ ~active
    /\ cancelled

\* The three writes of p.activeThreat: ReportThreat (line 276), processThreats
\* (line 415), moveAndEngage (line 466).
WriteByReportThreat ==
    /\ rtPc = "set_threat"
    /\ rtPc' = "set_mode"
    /\ activeThreat' = rtThreat
    /\ rtThreat # NoThreat
WriteByProcessThreats ==
    \E i \in LoopIds :
        /\ scanPc[i] = "pt_set"
        /\ scanPc'[i] = "pt_mode"
        /\ activeThreat' = scanHighest[i]
        /\ scanHighest[i] # NoThreat
ClearByMoveAndEngage ==
    \E i \in LoopIds :
        /\ scanPc[i] = "me_clear"
        /\ scanPc'[i] = "me_mode"
        /\ activeThreat' = NoThreat

\* C7, as stated: p.activeThreat is set only by the scan loop and cleared
\* only by the engagement step on elimination.
C7_OnlyScanLoopSets ==
    [][ activeThreat' # activeThreat =>
            (WriteByProcessThreats \/ ClearByMoveAndEngage) ]_vars

\* C7, amended: p.activeThreat is set only by ReportThreat and by the scan
\* loop's processThreats, and cleared only by moveAndEngage on elimination.
C7_ActiveThreatWriters ==
    [][ activeThreat' # activeThreat =>
            (WriteByReportThreat \/ WriteByProcessThreats \/ ClearByMoveAndEngage) ]_vars

\* C7 happened: ReportThreat has just replaced a threat the scan loop had set.
C7_Witness ==
    /\ rtPc = "set_mode"
    /\ activeThreat = rtThreat
    /\ \E i \in LoopIds : scanPc[i] = "pt_mode" /\ scanHighest[i] # activeThreat

\* C6: the mode, the active threat and the location are only accessed with
\* the state lock held, so a ReportThreat, GetActiveThreat or GetStatus call
\* and a scanEnvironment goroutine never access one of them at the same
\* time, one of the two writing.
C6_NoConflictingAccess ==
    \A i \in LoopIds : \A b \in ScanAccesses(i) :
        \A a \in ReportThreatAccesses \cup GetterAccesses : ~Conflict(a, b)

\* The threats of a sequence that the claim C9 calls candidates approved for
\* proactive engagement: positive health and shouldEngageProactively.
Approved(threats, loc) ==
    { k \in 1..Len(threats) :
        threats[k].Health > 0 /\ shouldEngageProactively(threats[k], loc) }
\* The first threat of the highest severity, in scan order.
FirstOfHighestSeverity(threats) ==
    LET top == { k \in 1..Len(threats) :
                   \A j \in 1..Len(threats) : threats[j].Severity <= threats[k].Severity }
    IN  threats[CHOOSE k \in top : \A j \in top : k <= j]

C10_EmptyScanClears ==
    [][ \A i \in LoopIds :
          (scanPc[i] = "scanned" /\ Len(scanThreats[i]) = 0 /\ scanPc'[i] = "select"
             /\ activeThreat # NoThreat) =>
               (activeThreat' = NoThreat /\ Mode' = "Normal") ]_vars

\* Every loop that was spawned has returned (a panic ends them all).
AllLoopsExited ==
    \/ crashed
    \/ /\ monRun = 0
       /\ healthRun = 0
       /\ \A i \in LoopIds : scanPc[i] \in {"none", "exited"}

\* C4: once ctx is done (Stop() or the parent's cancel), every running loop
\* eventually returns, whatever tick it was waiting on or processing.
C4_LoopsExitAfterCancel == cancelled ~> AllLoopsExited

\* C4 happened: the loops ran, ctx was cancelled while the scan loop was
\* engaging a threat, and all of them have returned.
C4_Witness ==
    /\ cancelled
    /\ starts > 0
    /\ monRun = 0
    /\ healthRun = 0
    /\ \A i \in LoopIds : scanPc[i] = "exited"
    /\ activeThreat # NoThreat

\* Thread t has called Lock/RLock and the call cannot return as things stand.
Blocked(t) == InCall(t) /\ lkAsked[t] /\ ~CanAcquire(t)
\* The threads that keep the blocked thread t waiting.
Blockers(t) ==
    LET l == NextOp(t).lock
    IN  IF NextOp(t).op = "Lock"
        THEN { u \in LockThreads : Holds(u, l) }
        ELSE { u \in LockThreads : lkWriter[l] = u } \cup WaitingWriters(l)
\* A set of blocked threads each of which waits for threads of the set alone.
Deadlocked(S) == S # {} /\ \A t \in S : Blocked(t) /\ Blockers(t) \subseteq S
\* Thread t is about to acquire, or waits for, lock l.
Acquiring(t, l) == InCall(t) /\ NextOp(t).op \in Acquires /\ NextOp(t).lock = l

\* C8: no interleaving deadlocks; the status lock is never held while a
\* registry or tracker lock is acquired (nor the other way round), and
\* registry and tracker locks nest only as registry, then one tracker.
C8_NoDeadlockLockOrder ==
    /\ \A S \in SUBSET LockThreads : ~Deadlocked(S)
    /\ \A t \in LockThreads :
          /\ Holds(t, StatusLock) => HeldBy(t) = {StatusLock}
          /\ Holds(t, StatusLock) =>
                \A l \in Locks \ {StatusLock} : ~Acquiring(t, l)
          /\ Acquiring(t, StatusLock) => HeldBy(t) = {}
          /\ Acquiring(t, RegistryLock) => HeldBy(t) = {}
          /\ \A p \in Parts :
                Acquiring(t, TrackerLock(p)) => HeldBy(t) \subseteq {RegistryLock}

\* C8 happened: monitorHealth holds the registry and a tracker for writing,
\* a registry caller and the scan loop wait for the registry, and
\* ReportThreat holds the status lock.
C8_Witness ==
    /\ lkWriter[RegistryLock] = "health"
    /\ \E p \in Parts : lkWriter[TrackerLock(p)] = "health"
    /\ Blocked("caller2")
    /\ Blocked("scan")
    /\ lkWriter[StatusLock] = "caller1"
    /\ lkProg["caller1"] = ReportThreatLocks

\* The program counters of scanEnvironment inside moveAndEngage.
EngagementPcs == {"me_distance", "me_engage", "me_move", "me_back", "me_clear", "me_mode"}

C12_ClearedOnlyAtZeroHealth ==
    [][ ClearByMoveAndEngage => activeThreat.Health <= 0 ]_vars

\* ------------------------------------------------- the MoveTowards walk
\* Targets lie at most MaxHops direction vectors away from the start.
MaxHops == 3
\* MoveTowards calls made in one walk.
MaxMoves == 2

\* Direction vectors whose length is a whole number of steps (1, 1, 5, 5, 3
\* and 7), so that distances and scaled directions are whole numbers.
Directions == { <<1, 0, 0>>, <<0, -1, 0>>, <<3, 4, 0>>, <<-4, 0, 3>>, <<1, 2, 2>>,
                <<-2, 3, -6>> }
DirectionLength(u) == Sqrt(u[1] * u[1] + u[2] * u[2] + u[3] * u[3])
MoveStarts == { Location(0, 0, 0), Location(1, -2, 3) }

\* A walk from one of the starts towards a target some hops away, with a
\* speed of no, one or two direction lengths per tick and a deltaTime of one
\* or two ticks.
MoveInit ==
    /\ NewProcessor
    /\ NewBodyPart(DefaultProtection("head"))
    /\ RegistryIdle
    /\ DefenseStart("head")
    /\ \E start \in MoveStarts, u \in Directions, k \in 0..MaxHops, j \in 0..2 :
         /\ mvLoc = start
         /\ mvPrev = start
         /\ mvTarget = Location(start.X + k * u[1], start.Y + k * u[2], start.Z + k * u[3])
         /\ mvSpeed = j * DirectionLength(u)
    /\ mvDelta \in 1..2
    /\ mvMoves = 0

\* moveTowardsTarget, lines 359-362: p.location becomes
\* p.location.MoveTowards(target, speed, deltaTime).
MoveStep ==
    /\ mvMoves < MaxMoves
    /\ mvPrev' = mvLoc
    /\ mvLoc' = MoveTowards3(mvLoc, mvTarget, mvSpeed, mvDelta)
    /\ mvMoves' = mvMoves + 1
    /\ UNCHANGED <<mvTarget, mvSpeed, mvDelta, trackerVars, mainVars, lockVars, registryVars,
                   defenseVars>>

MoveNext == MoveStep

MoveSpec == MoveInit /\ [][MoveNext]_vars

\* The squared distance of two locations, and the dot product and the cross
\* product of the vectors from a to b and from a to c.
SquaredDistance(a, b) ==
    (a.X - b.X) * (a.X - b.X) + (a.Y - b.Y) * (a.Y - b.Y) + (a.Z - b.Z) * (a.Z - b.Z)
Dot(a, b, c) ==
    (b.X - a.X) * (c.X - a.X) + (b.Y - a.Y) * (c.Y - a.Y) + (b.Z - a.Z) * (c.Z - a.Z)
Cross(a, b, c) ==
    Location((b.Y - a.Y) * (c.Z - a.Z) - (b.Z - a.Z) * (c.Y - a.Y),
             (b.Z - a.Z) * (c.X - a.X) - (b.X - a.X) * (c.Z - a.Z),
             (b.X - a.X) * (c.Y - a.Y) - (b.Y - a.Y) * (c.X - a.X))
\* Point q lies on the segment from a to b.
OnSegment(a, b, q) ==
    /\ Cross(a, b, q) = Location(0, 0, 0)
    /\ Dot(a, b, q) >= 0
    /\ SquaredDistance(a, q) <= SquaredDistance(a, b)

\* C13: a move step never overshoots: the location MoveTowards returns lies
\* on the segment from the location before to the target, at distance
\* min(speed * deltaTime, d) from the location before, d being the distance
\* to the target; when d is 0 it is the location before.
C13_MoveNeverOvershoots ==
    mvMoves > 0 =>
        LET m == mvSpeed * mvDelta
        IN  /\ OnSegment(mvPrev, mvTarget, mvLoc)
            /\ IF m * m <= SquaredDistance(mvPrev, mvTarget)
               THEN SquaredDistance(mvPrev, mvLoc) = m * m
               ELSE SquaredDistance(mvPrev, mvLoc) = SquaredDistance(mvPrev, mvTarget)
            /\ (mvPrev = mvTarget => mvLoc = mvPrev)

\* A step whose speed * deltaTime exceeded the distance left: it ended on
\* the target, after an earlier step that fell short of it.
C13_Witness ==
    /\ mvMoves = 2
    /\ mvPrev # mvTarget
    /\ mvPrev # Location(0, 0, 0)
    /\ mvPrev.Z # 0
    /\ mvLoc = mvTarget
    /\ (mvSpeed * mvDelta) * (mvSpeed * mvDelta) > SquaredDistance(mvPrev, mvTarget)

\* ------------------------------------------- calls on one health tracker
\* Calls made on the tracker in one run.
MaxCalls == 3

\* The arguments of the calls, in hundredths of a health point: NaN, -1, 30
\* and 200 points of damage; 0, 20 and 200 points of healing; -2, 10 and
\* 2000 points of impact; and the clock values -1 .. 2.
ReduceAmounts == { NaN, F(-100), F(3000), F(20000) }
HealAmounts == { F(0), F(2000), F(20000) }
DamageImpacts == { F(-200), F(1000), F(200000) }
UpdateTimes == { -1, 0, 1, 2 }

TrackerCalls ==
    { [op |-> "Reduce", arg |-> a, time |-> 0] : a \in ReduceAmounts }
    \cup { [op |-> "Heal", arg |-> a, time |-> 0] : a \in HealAmounts }
    \cup { [op |-> "TakeDamage", arg |-> a, time |-> 0] : a \in DamageImpacts }
    \cup { [op |-> "Update", arg |-> F(0), time |-> n] : n \in UpdateTimes }
    \cup { [op |-> "Get", arg |-> F(0), time |-> 0] }

\* The protection of the part: the default of a head or of a limb, active
\* or switched off.
Protections ==
    { [DefaultProtection(type) EXCEPT !.IsActive = on] :
          type \in {"head", "arm"}, on \in BOOLEAN }

\* The body of call c on tracker state h.
ApplyCall(prot, h, c) ==
    CASE c.op = "Reduce" -> Reduce(h, c.arg)
      [] c.op = "Heal" -> Heal(h, c.arg)
      [] c.op = "TakeDamage" -> TakeDamage(prot, h, c.arg)
      [] c.op = "Update" -> Update(h, c.time)
      [] OTHER -> Get(h)

TrackerInit ==
    /\ NewProcessor
    /\ MoveIdle
    /\ RegistryIdle
    /\ DefenseStart("head")
    /\ \E prot \in Protections : NewBodyPart(prot)

\* Caller t calls an operation of the tracker.
TrackerCall(t) ==
    /\ tPc[t] = "idle"
    /\ calls < MaxCalls
    /\ calls' = calls + 1
    /\ \E c \in TrackerCalls : tCall' = [tCall EXCEPT ![t] = c]
    /\ tPc' = [tPc EXCEPT ![t] = "lock"]
    /\ UNCHANGED <<hState, hProt, hWriter, hReaders, tLocal, tRet, tPost, tNth, tRefRet,
                   refState, updates>>
    /\ UNCHANGED <<moveVars, mainVars, lockVars, registryVars, defenseVars>>

\* What TrackerAcquire does once the lock is taken.
Acquired(t) ==
    /\ IF tCall[t].op = "Get"
       THEN hReaders' = hReaders \cup {t} /\ UNCHANGED hWriter
       ELSE hWriter' = t /\ UNCHANGED hReaders
    /\ tLocal' = [tLocal EXCEPT ![t] = hState]
    /\ tNth' = [tNth EXCEPT ![t] = updates]
    /\ updates' = IF tCall[t].op = "Update" THEN updates + 1 ELSE updates
    /\ refState' = ApplyCall(hProt, refState, tCall[t]).h
    /\ tRefRet' = [tRefRet EXCEPT ![t] = ApplyCall(hProt, refState, tCall[t]).ret]
    /\ tPc' = [tPc EXCEPT ![t] = "locked"]
    /\ UNCHANGED <<hState, hProt, tCall, tRet, tPost, calls>>
    /\ UNCHANGED <<moveVars, mainVars, lockVars, registryVars, defenseVars>>

\* TrackerAcquire without waiting for the lock.
TrackerAcquireUnlocked(t) ==
    /\ tPc[t] = "lock"
    /\ Acquired(t)

\* h.mu.Lock() (h.mu.RLock() in Get) returns, and the caller reads the
\* fields of the tracker.  The call takes its place in the serial order here.
TrackerAcquire(t) ==
    /\ tPc[t] = "lock"
    /\ hWriter = "none"
    /\ tCall[t].op # "Get" => hReaders = {}
    /\ Acquired(t)

\* The caller writes the fields its call changes, and returns: the deferred
\* Unlock (RUnlock) runs.
TrackerStore(t) ==
    /\ tPc[t] = "locked"
    /\ LET r == ApplyCall(hProt, tLocal[t], tCall[t])
       IN  /\ hState' = [current |-> IF r.h.current = tLocal[t].current
                                     THEN hState.current ELSE r.h.current,
                         lastUpdate |-> IF r.h.lastUpdate = tLocal[t].lastUpdate
                                        THEN hState.lastUpdate ELSE r.h.lastUpdate]
           /\ tRet' = [tRet EXCEPT ![t] = r.ret]
    /\ tPost' = [tPost EXCEPT ![t] = hState']
    /\ IF tCall[t].op = "Get"
       THEN hReaders' = hReaders \ {t} /\ UNCHANGED hWriter
       ELSE hWriter' = (IF hWriter = t THEN "none" ELSE hWriter) /\ UNCHANGED hReaders
    /\ tPc' = [tPc EXCEPT ![t] = "done"]
    /\ UNCHANGED <<hProt, tCall, tLocal, tNth, tRefRet, refState, updates, calls>>
    /\ UNCHANGED <<moveVars, mainVars, lockVars, registryVars, defenseVars>>

\* The caller has used the result and is ready for its next call.
TrackerReturn(t) ==
    /\ tPc[t] = "done"
    /\ tPc' = [tPc EXCEPT ![t] = "idle"]
    /\ tCall' = [tCall EXCEPT ![t] = NoCall]
    /\ tLocal' = [tLocal EXCEPT ![t] = NewSafeHealth]
    /\ tRet' = [tRet EXCEPT ![t] = F(0)]
    /\ tPost' = [tPost EXCEPT ![t] = NewSafeHealth]
    /\ tNth' = [tNth EXCEPT ![t] = 0]
    /\ tRefRet' = [tRefRet EXCEPT ![t] = F(0)]
    /\ UNCHANGED <<hState, hProt, hWriter, hReaders, refState, updates, calls>>
    /\ UNCHANGED <<moveVars, mainVars, lockVars, registryVars, defenseVars>>

TrackerNext ==
    \E t \in Callers :
        \/ TrackerCall(t)
        \/ TrackerAcquire(t)
        \/ TrackerStore(t)
        \/ TrackerReturn(t)

TrackerSpec == TrackerInit /\ [][TrackerNext]_vars

\* Caller t has completed a call of operation op and not yet started another.
Completed(t, op) == tPc[t] = "done" /\ tCall[t].op = op

\* C14: the health of the tracker stays within 0 .. maximum, whatever the
\* Reduce, Heal and Update calls made on it and their arguments.
C14_HealthWithinBounds ==
    FLe(F(0), hState.current) /\ FLe(hState.current, F(MaxHealth))

\* C19: concurrent Reduce, Heal, Update, TakeDamage and Get calls behave as
\* if executed one at a time in the order in which they took the lock: every
\* completed call returned what it returns in that serial order, and
\* whenever no writer is inside, the tracker holds the state the serial
\* order leaves.
C19_CallsSerializable ==
    /\ \A t \in Callers : tPc[t] = "done" => tRet[t] = tRefRet[t]
    /\ hWriter = "none" => hState = refState

\* Two calls were in progress together, the second one a Reduce that took
\* effect on the health the first one had left.
C19_Witness ==
    /\ Completed("c1", "Reduce")
    /\ Completed("c2", "Reduce")
    /\ tLocal["c1"].current = F(MaxHealth)
    /\ tLocal["c2"].current = F(MaxHealth - 3000)
    /\ tRet["c2"] = F(MaxHealth - 3000)
    /\ hState.current = F(0)

\* C15: a completed Reduce(amount) with amount <= 0 changed nothing and
\* returned 0; with amount > 0 it returned min(amount, current) and lowered
\* current by that value, so that the value returned plus the health left is
\* the health before the call.  (On a NaN health the three values are NaN.)
C15_ReduceReturnsDamageApplied ==
    \A t \in Callers :
        Completed(t, "Reduce") =>
            LET amount == tCall[t].arg
                before == tLocal[t].current
                after == tPost[t].current
            IN  /\ FLe(amount, F(0)) => tPost[t] = tLocal[t] /\ tRet[t] = F(0)
                /\ FLt(F(0), amount) =>
                       /\ tRet[t] = FMin(amount, before)
                       /\ after = FSub(before, tRet[t])
                       /\ FAdd(tRet[t], after) = before
                       /\ tPost[t].lastUpdate = tLocal[t].lastUpdate

\* A Reduce of 200 points on a tracker an earlier Reduce had left at 70
\* points: it returned 70 and left 0.
C15_Witness ==
    \E t \in Callers :
        /\ Completed(t, "Reduce")
        /\ tCall[t].arg = F(20000)
        /\ tLocal[t].current = F(MaxHealth - 3000)
        /\ tRet[t] = F(MaxHealth - 3000)
        /\ tPost[t].current = F(0)

\* C16: only the first Update call is a baseline call: it records its
\* timestamp and changes no health; every later Update call with a
\* timestamp greater than the recorded one records its timestamp and, the
\* health being below the maximum, raises it.
C16_OnlyFirstUpdateIsBaseline ==
    \A t \in Callers :
        Completed(t, "Update") =>
            LET now == tCall[t].time
            IN  /\ tNth[t] = 0 =>
                       /\ tPost[t].current = tLocal[t].current
                       /\ tPost[t].lastUpdate = now
                /\ (tNth[t] > 0 /\ now > tLocal[t].lastUpdate) =>
                       /\ tPost[t].lastUpdate = now
                       /\ FLt(tLocal[t].current, F(MaxHealth)) =>
                              FLt(tLocal[t].current, tPost[t].current)

\* C17: an Update(now) that is not a baseline call (an earlier Update call
\* recorded a timestamp, and that timestamp is after 0), with now later than
\* the recorded timestamp, both in whole seconds, leaves
\* min(maximum, current + 0.1 * (now - recorded) * maximum) and records now.
C17_RegenerationPerSecond ==
    \A t \in Callers :
        (/\ Completed(t, "Update")
         /\ tNth[t] > 0
         /\ tLocal[t].lastUpdate > 0
         /\ tCall[t].time > tLocal[t].lastUpdate) =>
            LET elapsedSeconds == tCall[t].time - tLocal[t].lastUpdate
            IN  /\ tPost[t].current =
                       FMin(F(MaxHealth),
                            FAdd(tLocal[t].current, F((elapsedSeconds * MaxHealth) \div 10)))
                /\ tPost[t].lastUpdate = tCall[t].time

\* C18: an Update(t) with t not greater than the timestamp an earlier
\* Update call recorded changes neither the health nor the timestamp.
C18_UpdateNotLaterIsNoOp ==
    \A t \in Callers :
        (/\ Completed(t, "Update")
         /\ tNth[t] > 0
         /\ tCall[t].time <= tLocal[t].lastUpdate) =>
            tPost[t] = tLocal[t]

\* The damage TakeDamage(raw) is to apply on a part with protection prot, as
\* a fraction of hundredths of a health point.
AppliedDamage(prot, raw) ==
    IF prot.IsActive
    THEN [num |-> raw.v * (100 - prot.ArmorRating) * (100 - prot.ShieldStrength),
          den |-> 100 * 100]
    ELSE [num |-> raw.v, den |-> 1]

\* C20: a completed TakeDamage(raw) took raw * (1 - armorRating/100) *
\* (1 - shieldStrength/100) off the health when protection is active and raw
\* when it is not, and in both cases no more than the health there was; it
\* returned the health taken off.  (A damage that is not positive takes
\* nothing off: TakeDamage hands the damage to Reduce.)
C20_TakeDamageMultiplicative ==
    \A t \in Callers :
        Completed(t, "TakeDamage") =>
            LET applied == AppliedDamage(hProt, tCall[t].arg)
                before == tLocal[t].current
                after == tPost[t].current
                loss == FSub(before, after)
            IN  /\ applied.num % applied.den = 0
                /\ IF applied.num <= 0 THEN tPost[t] = tLocal[t] /\ tRet[t] = F(0)
                   ELSE /\ loss = FMin(F(applied.num \div applied.den), before)
                        /\ tRet[t] = loss
                        /\ tPost[t].lastUpdate = tLocal[t].lastUpdate

\* On a limb with its protection active a TakeDamage(10) took 0.5 points
\* off, and a TakeDamage(2000) then took the 99.5 points there were.
C20_Witness ==
    /\ hProt.IsActive
    /\ hProt.ArmorRating = 80
    /\ Completed("c1", "TakeDamage")
    /\ tCall["c1"].arg = F(1000)
    /\ tLocal["c1"].current = F(MaxHealth)
    /\ tPost["c1"].current = F(MaxHealth - 50)
    /\ Completed("c2", "TakeDamage")
    /\ tCall["c2"].arg = F(200000)
    /\ tLocal["c2"].current = F(MaxHealth - 50)
    /\ tRet["c2"] = F(MaxHealth - 50)
    /\ tPost["c2"].current = F(0)

\* ------------------------------------------ strategy actions on one part
\* Calls made on the part in one run.
MaxDefenses == 3

DefenseStrategies == { "ActivateEmergencyShields", "InitiateEvasiveManeuver",
                       "ReinforceCriticalSystems", "DistributeShieldPower" }
AttackStrategies == { "PlasmaCannonAttack", "MissileLaunch", "EMPPulse", "LaserBeam" }
\* The threats handed to the actions: nil, or one of severity 1 to 9.
Severities == 1..9
ActionThreats ==
    { NoThreat } \cup { Threat([src |-> "report", n |-> 1], sev, Loc(0), ReportedHealth) :
                            sev \in Severities }
\* The threats an action is tried with on part: DistributeShieldPower on a
\* part reads the severity, every other call only whether the threat is nil.
ThreatsFor(strategy, part) ==
    IF strategy = "DistributeShieldPower" /\ part # "nil" THEN ActionThreats
    ELSE { t \in ActionThreats : t.Severity \in {0, 5} }

\* The health a part has when damage is tried on it: 100 points and 1 point.
StartHealths == { F(MaxHealth), F(HealthScale) }

\* A defensive action called with part, which may be nil: every action
\* returns an error for a nil part before anything else.
DefensiveActionOn(strategy, part, prot, threat) ==
    IF part = "nil" THEN [res |-> "error", prot |-> prot]
    ELSE DefensiveAction(strategy, part, prot, threat)

\* An attack action called with part, which may be nil.
AttackActionOn(strategy, part, threat) ==
    IF part = "nil" THEN "error" ELSE AttackAction(strategy, part, threat)

DefenseInit ==
    /\ NewProcessor
    /\ MoveIdle
    /\ NewBodyPart(DefaultProtection("head"))
    /\ RegistryIdle
    /\ \E part \in Parts : DefenseStart(part)

\* A panic in an action ends the process.
DefenseRunning == dfCalls < MaxDefenses /\ dfCall.res # "panic"
DefenseFrame == UNCHANGED <<dfPart, moveVars, trackerVars, registryVars, mainVars, lockVars>>

\* strategy.Action(part, threat) of a defensive strategy.
DefenseAct ==
    /\ DefenseRunning
    /\ \E strategy \in DefenseStrategies, part \in {dfPart, "nil"} :
       \E threat \in ThreatsFor(strategy, part) :
         LET r == DefensiveActionOn(strategy, part, dfProt, threat)
         IN  /\ dfProt' = r.prot
             /\ dfCall' = [NoDefenseCall EXCEPT !.kind = "defense", !.strategy = strategy,
                                                !.part = part, !.threat = threat,
                                                !.before = dfProt, !.res = r.res]
    /\ dfCalls' = dfCalls + 1
    /\ DefenseFrame

\* strategy.Action(part, threat) of an attack strategy.
AttackAct ==
    /\ DefenseRunning
    /\ \E strategy \in AttackStrategies, part \in {dfPart, "nil"} :
       \E threat \in ThreatsFor(strategy, part) :
         dfCall' = [NoDefenseCall EXCEPT !.kind = "attack", !.strategy = strategy,
                                         !.part = part, !.threat = threat,
                                         !.before = dfProt,
                                         !.res = AttackActionOn(strategy, part, threat)]
    /\ dfCalls' = dfCalls + 1
    /\ UNCHANGED dfProt
    /\ DefenseFrame

\* GetDefensiveStrategies(part) and GetOffensiveStrategies(part).
LookupAct ==
    /\ DefenseRunning
    /\ dfCall' = [NoDefenseCall EXCEPT !.kind = "lookup", !.part = dfPart,
                                       !.before = dfProt,
                                       !.defense = GetDefensiveStrategies(dfPart),
                                       !.offense = GetOffensiveStrategies(dfPart)]
    /\ dfCalls' = dfCalls + 1
    /\ UNCHANGED dfProt
    /\ DefenseFrame

\* part.TakeDamage(raw) on the part, its health being start.
DamageAct ==
    /\ DefenseRunning
    /\ \E raw \in DamageImpacts, start \in StartHealths :
         dfCall' = [NoDefenseCall EXCEPT
                        !.kind = "damage", !.part = dfPart, !.before = dfProt,
                        !.raw = raw, !.start = start,
                        !.damage = TakeDamage(dfProt, [current |-> start, lastUpdate |-> 0],
                                              raw).ret]
    /\ dfCalls' = dfCalls + 1
    /\ UNCHANGED dfProt
    /\ DefenseFrame

DefenseNext == DefenseAct \/ AttackAct \/ LookupAct \/ DamageAct

DefenseSpec == DefenseInit /\ [][DefenseNext]_vars

\* C21: for a fixed raw damage and starting health, the damage TakeDamage
\* applies with the part's protection is not exceeded by the damage it
\* applies with the armor rating, the shield strength or both raised, up to
\* the ceiling of 100 the defensive strategies keep.
C21_DamageMonotoneInProtection ==
    dfCall.kind = "damage" =>
        LET h == [current |-> dfCall.start, lastUpdate |-> 0]
            Damage(a, s) ==
                TakeDamage([dfProt EXCEPT !.ArmorRating = a, !.ShieldStrength = s],
                           h, dfCall.raw).ret
        IN  /\ dfCall.damage = Damage(dfProt.ArmorRating, dfProt.ShieldStrength)
            /\ \A a \in dfProt.ArmorRating..100, s \in dfProt.ShieldStrength..100 :
                   FLe(Damage(a, s), dfCall.damage)

\* Damage was applied to the body after ReinforceCriticalSystems had raised
\* its armor to 100 and DistributeShieldPower had lowered its shield: none
\* got through, where 10 points of impact take 0.15 off a new body.
C21_Witness ==
    /\ dfCall.kind = "damage"
    /\ dfPart = "body"
    /\ dfProt.ArmorRating = 100
    /\ dfProt.ShieldStrength < 85
    /\ dfCall.raw = F(1000)
    /\ dfCall.damage = F(0)
    /\ TakeDamage(DefaultProtection("body"), NewSafeHealth, F(1000)).ret = F(15)

\* C27: a strategy action called with a nil part, with a nil threat, or (an
\* attack action) with a part of another category than the one it requires
\* returns an error and leaves the part's protection as it was; it does not
\* panic.
C27_ActionsRejectBadInput ==
    (/\ dfCall.kind \in {"defense", "attack"}
     /\ \/ dfCall.part = "nil"
        \/ dfCall.threat = NoThreat
        \/ /\ dfCall.kind = "attack"
           /\ dfCall.part # "nil"
           /\ PartType(dfCall.part) # AttackPartType(dfCall.strategy)) =>
        /\ dfCall.res = "error"
        /\ dfProt = dfCall.before

\* The part categories with a list registered by initializeStrategies, in
\* the defense and in the offense catalog.
DefenseRegistered == {"head", "body"}
OffenseRegistered == {"arm", "body", "head"}

\* C28: a part whose category has no registered list gets an empty result
\* from either catalog; any other part gets the list registered for its
\* category, in registration order.
C28_CatalogLookup ==
    dfCall.kind = "lookup" =>
        LET type == PartType(dfCall.part)
        IN  /\ type \notin DefenseRegistered => dfCall.defense = <<>>
            /\ type \notin OffenseRegistered => dfCall.offense = <<>>
            /\ type = "head" =>
                   /\ dfCall.defense = <<"ActivateEmergencyShields", "InitiateEvasiveManeuver">>
                   /\ dfCall.offense = <<"LaserBeam">>
            /\ type = "body" =>
                   /\ dfCall.defense = <<"ReinforceCriticalSystems", "DistributeShieldPower">>
                   /\ dfCall.offense = <<"MissileLaunch", "EMPPulse">>
            /\ type = "arm" => dfCall.offense = <<"PlasmaCannonAttack">>

\* C29: after any sequence of defensive actions with threats of severity 1
\* to 9 (or none), the part's armor rating and shield strength are within 0
\* to 100, and a boost that would pass 100 left exactly 100.
C29_ProtectionWithinRange ==
    /\ dfProt.ArmorRating \in 0..100
    /\ dfProt.ShieldStrength \in 0..100
    /\ (dfCall.kind = "defense" /\ dfCall.part # "nil") =>
           /\ (dfCall.strategy = "ActivateEmergencyShields"
               /\ dfCall.before.ShieldStrength * 15 >= 100 * 10) =>
                  dfProt.ShieldStrength = 100
           /\ (dfCall.strategy = "ReinforceCriticalSystems" /\ IsCritical(dfCall.part)
               /\ dfCall.before.ArmorRating * 13 >= 100 * 10) =>
                  dfProt.ArmorRating = 100

\* On the body, ReinforceCriticalSystems raised the armor from 90 to its
\* ceiling, DistributeShieldPower with severity 9 lowered the shield from 85
\* to 76, and ActivateEmergencyShields then boosted it to exactly 100.
C29_Witness ==
    /\ dfPart = "body"
    /\ dfCalls = 3
    /\ dfProt.ArmorRating = 100
    /\ dfCall.kind = "defense"
    /\ dfCall.strategy = "ActivateEmergencyShields"
    /\ dfCall.before.ShieldStrength = 76
    /\ dfProt.ShieldStrength = 100

\* C30: a part's health, its recorded update time and its protection change
\* only in an operation of the anatomy registry, made under the registry's
\* lock; of those the processor runs UpdateAllParts, in its health loop.
C30_OnlyRegistryMutatesParts ==
    [][ (protection' # protection \/ health' # health \/ lastUpdate' # lastUpdate)
            => MonitorHealthTick ]_vars

\* ------------------------------------------------ calls on the registry
\* Calls made on the registry in one run.
MaxRegistryCalls == 3

\* The arguments of the calls: the name of a critical part, of an arm and of
\* no part; 200 and 2000 points of damage; the clock values 1 and 2.
KnownNames == { "head", "arm_left" }
UnknownNames == { "tail" }
UpdateDamages == { F(20000), F(200000) }
RegistryTimes == { 1, 2 }

RegistryCalls ==
    { [NoRegistryCall EXCEPT !.op = "UpdatePart", !.name = n, !.damage = dmg] :
          n \in KnownNames \cup UnknownNames, dmg \in UpdateDamages }
    \cup { [NoRegistryCall EXCEPT !.op = op, !.name = n] :
               op \in {"GetPart", "IsPartCritical"}, n \in {"arm_left"} \cup UnknownNames }
    \cup { [NoRegistryCall EXCEPT !.op = "UpdateAllParts", !.time = now] :
               now \in RegistryTimes }
    \cup { [NoRegistryCall EXCEPT !.op = op] :
               op \in {"GetCriticalParts", "CalculateTotalWeight", "GetHealthStatus"} }

\* The operations that take RobotAnatomy.mu for writing; the others take it
\* for reading.
RegistryWriters == { "UpdatePart", "UpdateAllParts" }

RegistryInit ==
    /\ NewProcessor
    /\ MoveIdle
    /\ NewBodyPart(DefaultProtection("head"))
    /\ DefenseStart("head")
    /\ RegistryIdle

RegistryFrame == UNCHANGED <<regAnatomy, moveVars, trackerVars, defenseVars, mainVars, lockVars>>

\* Caller t calls an operation of the registry.
RegistryCall(t) ==
    /\ rPc[t] = "idle"
    /\ rCalls < MaxRegistryCalls
    /\ rCalls' = rCalls + 1
    /\ \E c \in RegistryCalls : rCall' = [rCall EXCEPT ![t] = c]
    /\ rPc' = [rPc EXCEPT ![t] = "lock"]
    /\ UNCHANGED <<regObjects, regWriter, regReaders, rPre, rPost, rTodo, rRet>>
    /\ RegistryFrame

\* What RegistryAcquire does once the lock is taken.  GetHealthStatus starts
\* its loop over the map, whose order is not fixed.
RegistryAcquired(t) ==
    /\ IF rCall[t].op \in RegistryWriters
       THEN regWriter' = t /\ UNCHANGED regReaders
       ELSE regReaders' = regReaders \cup {t} /\ UNCHANGED regWriter
    /\ rPre' = [rPre EXCEPT ![t] = regObjects]
    /\ IF rCall[t].op = "GetHealthStatus"
       THEN \E order \in {PartOrder, ReversePartOrder} : rTodo' = [rTodo EXCEPT ![t] = order]
       ELSE UNCHANGED rTodo
    /\ rPc' = [rPc EXCEPT ![t] = "locked"]
    /\ UNCHANGED <<regObjects, rCall, rPost, rRet, rCalls>>
    /\ RegistryFrame

\* RegistryAcquire without waiting for the lock.
RegistryAcquireUnlocked(t) ==
    /\ rPc[t] = "lock"
    /\ RegistryAcquired(t)

\* ra.mu.Lock() (ra.mu.RLock() in the reading operations) returns.
RegistryAcquire(t) ==
    /\ rPc[t] = "lock"
    /\ regWriter = "none"
    /\ rCall[t].op \in RegistryWriters => regReaders = {}
    /\ RegistryAcquired(t)

\* GetHealthStatus, lines 141-143: status[name] = part.GetHealth() for the
\* next entry of the map.
RegistryRead(t) ==
    /\ rPc[t] = "locked"
    /\ rCall[t].op = "GetHealthStatus"
    /\ rTodo[t] # <<>>
    /\ LET name == Head(rTodo[t])
       IN  rRet' = [rRet EXCEPT ![t].status =
                        @ @@ (name :> Get(regObjects[regAnatomy.Parts[name]].health).ret)]
    /\ rTodo' = [rTodo EXCEPT ![t] = Tail(@)]
    /\ UNCHANGED <<regObjects, regWriter, regReaders, rPc, rCall, rPre, rPost, rCalls>>
    /\ RegistryFrame

\* The rest of the operation's body, and its return: the deferred Unlock
\* (RUnlock) runs.
RegistryFinish(t) ==
    /\ rPc[t] = "locked"
    /\ rCall[t].op = "GetHealthStatus" => rTodo[t] = <<>>
    /\ LET c == rCall[t]
       IN  CASE c.op = "UpdatePart" ->
                  LET r == UpdatePart(regAnatomy, regObjects, c.name, c.damage)
                  IN  /\ regObjects' = r.objs
                      /\ rRet' = [rRet EXCEPT ![t].err = r.err]
             [] c.op = "UpdateAllParts" ->
                  /\ regObjects' = UpdateAllParts(regAnatomy, regObjects, c.time)
                  /\ rRet' = [rRet EXCEPT ![t].err = "nil"]
             [] c.op = "GetPart" ->
                  /\ rRet' = [rRet EXCEPT ![t].err = GetPart(regAnatomy, c.name).err,
                                          ![t].part = GetPart(regAnatomy, c.name).part]
                  /\ UNCHANGED regObjects
             [] c.op = "IsPartCritical" ->
                  /\ rRet' = [rRet EXCEPT ![t].err = "nil",
                                          ![t].critical =
                                              IsPartCritical(regAnatomy, regObjects, c.name)]
                  /\ UNCHANGED regObjects
             [] c.op = "GetCriticalParts" ->
                  /\ rRet' = [rRet EXCEPT ![t].err = "nil",
                                          ![t].parts = CriticalPartsOf(regAnatomy, regObjects)]
                  /\ UNCHANGED regObjects
             [] c.op = "CalculateTotalWeight" ->
                  /\ rRet' = [rRet EXCEPT ![t].err = "nil",
                                          ![t].weight =
                                              CalculateTotalWeight(regAnatomy, regObjects)]
                  /\ UNCHANGED regObjects
             [] OTHER ->
                  /\ rRet' = [rRet EXCEPT ![t].err = "nil"]
                  /\ UNCHANGED regObjects
    /\ rPost' = [rPost EXCEPT ![t] = regObjects']
    /\ IF rCall[t].op \in RegistryWriters
       THEN regWriter' = (IF regWriter = t THEN "none" ELSE regWriter) /\ UNCHANGED regReaders
       ELSE regReaders' = regReaders \ {t} /\ UNCHANGED regWriter
    /\ rPc' = [rPc EXCEPT ![t] = "done"]
    /\ UNCHANGED <<rCall, rPre, rTodo, rCalls>>
    /\ RegistryFrame

\* The caller has used the result and is ready for its next call.
RegistryReturn(t) ==
    /\ rPc[t] = "done"
    /\ rPc' = [rPc EXCEPT ![t] = "idle"]
    /\ rCall' = [rCall EXCEPT ![t] = NoRegistryCall]
    /\ rPre' = [rPre EXCEPT ![t] = NewBodyParts]
    /\ rPost' = [rPost EXCEPT ![t] = NewBodyParts]
    /\ rRet' = [rRet EXCEPT ![t] = NoResult]
    /\ UNCHANGED <<regObjects, regWriter, regReaders, rTodo, rCalls>>
    /\ RegistryFrame

\* ReportThreat, lines 286-295 (and engageTarget, 495-503): the defensive
\* strategies of a critical part run on the part itself; no lock is held.
RegistryDefend ==
    /\ rCalls < MaxRegistryCalls
    /\ rCalls' = rCalls + 1
    /\ \E o \in CriticalPartsOf(regAnatomy, regObjects), threat \in ReportedThreats(1) :
         LET name == regObjects[o].Name
             r == RunDefensive(GetDefensiveStrategies(name), name, regObjects[o].Protection,
                               threat, <<>>)
         IN  regObjects' = [regObjects EXCEPT ![o].Protection = r.prot]
    /\ UNCHANGED <<regWriter, regReaders, rPc, rCall, rPre, rPost, rTodo, rRet>>
    /\ RegistryFrame

RegistryNext ==
    \/ \E t \in Callers :
           \/ RegistryCall(t)
           \/ RegistryAcquire(t)
           \/ RegistryRead(t)
           \/ RegistryFinish(t)
           \/ RegistryReturn(t)
    \/ RegistryDefend

RegistrySpec == RegistryInit /\ [][RegistryNext]_vars

\* Caller t has completed a call of operation op on the registry.
RegistryCompleted(t, op) == rPc[t] = "done" /\ rCall[t].op = op
\* The health of every part object in objs.
HealthOf(objs) == [ o \in DOMAIN objs |-> objs[o].health ]

\* C22: a completed GetPart or UpdatePart with a name that is not one of the
\* six parts returned the not-found error, and the UpdatePart left every
\* part's health as it was; with a known name GetPart returned that part and
\* UpdatePart changed the health of no other part.
C22_UnknownPartNotFound ==
    \A t \in Callers :
        /\ RegistryCompleted(t, "GetPart") =>
               IF rCall[t].name \in Parts
               THEN /\ rRet[t].err = "nil"
                    /\ rRet[t].part \in PartObjects
                    /\ regObjects[rRet[t].part].Name = rCall[t].name
               ELSE rRet[t].err = "not found" /\ rRet[t].part = 0
        /\ RegistryCompleted(t, "UpdatePart") =>
               IF rCall[t].name \in Parts
               THEN /\ rRet[t].err = "nil"
                    /\ \A o \in PartObjects :
                           rPre[t][o].Name # rCall[t].name =>
                               rPost[t][o].health = rPre[t][o].health
               ELSE /\ rRet[t].err = "not found"
                    /\ HealthOf(rPost[t]) = HealthOf(rPre[t])

\* One caller's UpdatePart("tail", ...) returned not found on a registry
\* whose left arm the other caller's UpdatePart had just brought from 100 to
\* 90 points, the other parts staying at 100.
C22_Witness ==
    /\ RegistryCompleted("c1", "UpdatePart")
    /\ rCall["c1"].name = "tail"
    /\ rRet["c1"].err = "not found"
    /\ RegistryCompleted("c2", "UpdatePart")
    /\ rCall["c2"].name = "arm_left"
    /\ rPre["c2"][3].health.current = F(MaxHealth)
    /\ rPost["c2"][3].health.current = F(MaxHealth - 1000)
    /\ rPre["c1"][3].health.current = F(MaxHealth - 1000)
    /\ regObjects[1].health.current = F(MaxHealth)

\* The names of the part objects in the set objs.
NamesOf(objs) == { regObjects[o].Name : o \in objs }

\* C23: in every state of the registry, after any damage, regeneration and
\* defensive action, the parts flagged critical are exactly head, body,
\* leg_left and leg_right and the weights add up to 150; every completed
\* GetCriticalParts and CalculateTotalWeight returned just that.
C23_CriticalPartsAndWeightFixed ==
    /\ NamesOf(CriticalPartsOf(regAnatomy, regObjects)) = {"head", "body", "leg_left", "leg_right"}
    /\ CalculateTotalWeight(regAnatomy, regObjects) = 150
    /\ \A t \in Callers :
           /\ RegistryCompleted(t, "GetCriticalParts") =>
                  /\ NamesOf(rRet[t].parts) = {"head", "body", "leg_left", "leg_right"}
                  /\ Cardinality(rRet[t].parts) = 4
           /\ RegistryCompleted(t, "CalculateTotalWeight") => rRet[t].weight = 150

\* GetCriticalParts completed on a registry whose left arm an UpdatePart had
\* brought to health 0 and whose head a defensive pass had given a shield of
\* 100: it returned four parts, the arm not among them.
C23_Witness ==
    /\ RegistryCompleted("c1", "GetCriticalParts")
    /\ rPre["c1"][3].health.current = F(0)
    /\ rPre["c1"][1].Protection.ShieldStrength = 100
    /\ 3 \notin rRet["c1"].parts

\* C24: in every state the name lookup has exactly the six names, bound to
\* six different objects, and each entry is the object of the matching typed
\* field, which carries that name.
C24_LookupMatchesTypedFields ==
    /\ DOMAIN regAnatomy.Parts = {"head", "body", "arm_left", "arm_right", "leg_left", "leg_right"}
    /\ Cardinality({ regAnatomy.Parts[n] : n \in DOMAIN regAnatomy.Parts }) = 6
    /\ regAnatomy.Parts["head"] = regAnatomy.Head
    /\ regAnatomy.Parts["body"] = regAnatomy.Body
    /\ regAnatomy.Parts["arm_left"] = regAnatomy.Arms[1]
    /\ regAnatomy.Parts["arm_right"] = regAnatomy.Arms[2]
    /\ regAnatomy.Parts["leg_left"] = regAnatomy.Legs[1]
    /\ regAnatomy.Parts["leg_right"] = regAnatomy.Legs[2]
    /\ \A n \in DOMAIN regAnatomy.Parts : regObjects[regAnatomy.Parts[n]].Name = n

\* The registry after an UpdatePart that damaged the left arm, a defensive
\* pass on a critical part and a completed UpdateAllParts.
C24_Witness ==
    /\ rCalls = MaxRegistryCalls
    /\ RegistryCompleted("c1", "UpdateAllParts")
    /\ regObjects[3].health.current # F(MaxHealth)
    /\ \E o \in PartObjects : regObjects[o].Protection # NewBodyParts[o].Protection

\* The reading operations of the name-to-part mapping.
MappingReads == { "GetPart", "IsPartCritical", "GetCriticalParts" }

\* C25: while an UpdatePart or an UpdateAllParts is in progress, a caller
\* that has called GetPart, IsPartCritical or GetCriticalParts can go on: the
\* lock it asks for is not held for writing.
C25_UpdatesDoNotBlockMappingReads ==
    \A t \in Callers, u \in Callers :
        ( /\ rPc[t] = "lock"
          /\ rCall[t].op \in MappingReads
          /\ rPc[u] = "locked"
          /\ rCall[u].op \in RegistryWriters )
        => regWriter = "none"

\* C26: a completed GetHealthStatus returned, for each of the six names, the
\* health that part had when the call took the registry's lock.
C26_HealthStatusIsSnapshot ==
    \A t \in Callers :
        RegistryCompleted(t, "GetHealthStatus") =>
            /\ DOMAIN rRet[t].status = Parts
            /\ \A n \in Parts :
                   rRet[t].status[n] = rPre[t][regAnatomy.Parts[n]].health.current

\* GetHealthStatus completed, reporting the damage an earlier UpdatePart did,
\* while the other caller's UpdatePart waits for the lock.
C26_Witness ==
    /\ RegistryCompleted("c1", "GetHealthStatus")
    /\ \E n \in Parts : rRet["c1"].status[n] # F(MaxHealth)
    /\ rPc["c2"] = "lock"
    /\ rCall["c2"].op = "UpdatePart"
    /\ rCall["c2"].name \in Parts

\* ------------------------------------------------- the processor's mode
\* The values of common.OperationMode.
OperationModes == { "Normal", "Combat", "Emergency", "Maintenance" }

\* C31: in every state reached by Start, Stop, ReportThreat, the scan ticks
\* and the engagement ticks, the mode is Normal or Combat.
C31_ModeNormalOrCombat ==
    /\ Mode \in OperationModes
    /\ Mode \notin { "Emergency", "Maintenance" }

\* The mode has gone from Normal to Combat and back: a reported threat was
\* accepted, engaged and eliminated, and Stop was called afterwards.
C31_Witness ==
    /\ Mode = "Normal"
    /\ rtResult = "nil"
    /\ Len(rtWrote) = 2
    /\ activeThreat = NoThreat
    /\ stops > 0
    /\ location # Loc(0)
    /\ \A i \in LoopIds : scanPc[i] = "exited"

\* ------------------------------------------- processThreats as a function
\* The highest severity among the threats of a non-empty sequence.
TopSeverity(threats) ==
    CHOOSE sev \in { threats[k].Severity : k \in 1..Len(threats) } :
        \A k \in 1..Len(threats) : threats[k].Severity <= sev
\* The first threat of the sequence that has the severity sev.
FirstWithSeverity(threats, sev) ==
    threats[CHOOSE k \in 1..Len(threats) :
                /\ threats[k].Severity = sev
                /\ \A j \in 1..(k - 1) : threats[j].Severity # sev]

EngageInputs ==
    { <<sev, x>> : sev \in {0, 3, 6},
                   x \in {0, 1, 0 - 1, 36, 38, 39, 40, 41, 42, 44, 0 - 36, 0 - 44} }
EngageThreats ==
    { Threat([src |-> "report", n |-> 1], in[1], Loc(in[2]), ReportedHealth) :
        in \in EngageInputs }

\* The processor after Start() and a ReportThreat(t) that has returned nil
\* before the first tick: t is active, the mode is Combat and the critical
\* parts have been defended against t.
EngageInit ==
    /\ \E t \in EngageThreats :
         /\ activeThreat = t
         /\ protection = DefendAll([ p \in Parts |-> DefaultProtection(PartType(p)) ], t)
         /\ rtDefLog = [ p \in GetCriticalParts |->
                           RunDefensive(GetDefensiveStrategies(p), p,
                                        DefaultProtection(PartType(p)), t, <<>>).events ]
         /\ rtOffLog = RunOffensive(Arms[1], t) \o RunOffensive(Arms[2], t)
                         \o RunOffensive("body", t)
    /\ active = TRUE
    /\ Mode = "Combat"
    /\ cancelled = FALSE
    /\ crashed = FALSE
    /\ location = Loc(0)
    /\ health = [ p \in Parts |-> MaxHealth ]
    /\ lastUpdate = [ p \in Parts |-> 0 ]
    /\ starts = 1
    /\ stops = 0
    /\ stopResult = "none"
    /\ reports = 1
    /\ rtPc = "idle"
    /\ rtThreat = NoThreat
    /\ rtWrote = <<"activeThreat", "Mode">>
    /\ rtResult = "nil"
    /\ scanPc = [ i \in LoopIds |-> "select" ]
    /\ scanThreats = [ i \in LoopIds |-> <<>> ]
    /\ scanHighest = [ i \in LoopIds |-> NoThreat ]
    /\ scanSeen = [ i \in LoopIds |-> NoThreat ]
    /\ monRun = 1
    /\ healthRun = 1
    /\ lkProg = [ t \in LockThreads |-> <<>> ]
    /\ lkPos = [ t \in LockThreads |-> 1 ]
    /\ lkAsked = [ t \in LockThreads |-> FALSE ]
    /\ lkWriter = [ l \in Locks |-> "none" ]
    /\ lkReaders = [ l \in Locks |-> {} ]
    /\ MoveIdle
    /\ NewBodyPart(DefaultProtection("head"))
    /\ RegistryIdle
    /\ DefenseStart("head")

\* The movement ticks of the scan goroutine: the threat stays where it is and
\* nothing else runs.
EngageNext ==
    \E i \in LoopIds :
        \/ MovementTick(i)
        \/ moveAndEngage(i)

EngageSpec == EngageInit /\ [][EngageNext]_vars

\* The branch step of a movement tick of goroutine i, a threat being active.
BranchStep(i) ==
    /\ scanPc[i] \in {"me_engage", "me_move", "me_back"}
    /\ scanPc'[i] # scanPc[i]
    /\ activeThreat # NoThreat

\* C33: a movement tick on a stationary active threat, the robot's location
\* being a number.  The location stays a number and moves by one step
\* (speed * 0.1 s) at most; |distance - engagementDistance| does not grow;
\* more than 1 m beyond the engagement distance the robot ends nearer to the
\* threat, more than 1 m inside it farther from it, and within 1 m of it the
\* robot stays where it is.
C33_TickNeverLeavesStandoff ==
    [][ \A i \in LoopIds :
          (BranchStep(i) /\ ~location.nan /\ ~activeThreat.Location.nan) =>
              /\ ~location'.nan
              /\ LET before == CalculateDistance(location, activeThreat.Location)
                     after == CalculateDistance(location', activeThreat.Location)
                 IN  /\ Abs(location'.x - location.x) <= 1
                     /\ Abs(after - EngagementDistance) <= Abs(before - EngagementDistance)
                     /\ before - EngagementDistance > 1 * StepsPerMetre => after < before
                     /\ EngagementDistance - before > 1 * StepsPerMetre => after > before
                     /\ Abs(before - EngagementDistance) < 1 * StepsPerMetre =>
                            location' = location ]_vars

\* C34: when moveAndEngage is in its too-close branch the distance to the
\* active threat is a positive number, and the robot's location is a number
\* in every state.
C34_BackupDistancePositive ==
    /\ ~location.nan
    /\ \A i \in LoopIds :
           (scanPc[i] = "me_back" /\ activeThreat # NoThreat) =>
               /\ ~activeThreat.Location.nan
               /\ CalculateDistance(location, activeThreat.Location) > 0

\* ------------------------------------------- the fate of a reported threat
\* C35: once ReportThreat has returned nil, the threat it set stops being the
\* active threat only when the engagement that rolled "eliminated" was
\* engaging that very threat, when a scanned threat of strictly higher
\* severity replaces it, or when a later ReportThreat replaces it.
C35_AcceptedThreatOutlivesOthersElimination ==
    [][ ( /\ rtResult = "nil"
          /\ activeThreat.id.src = "report"
          /\ activeThreat' # activeThreat )
        => \/ /\ activeThreat' = NoThreat
              /\ \E i \in LoopIds : scanPc[i] = "me_clear" /\ scanSeen[i] = activeThreat
           \/ /\ activeThreat'.id.src = "scan"
              /\ activeThreat'.Severity > activeThreat.Severity
           \/ activeThreat'.id.src = "report" ]_vars

\* ------------------------------------------------- Start() called again
\* The scanEnvironment goroutines of two Start() calls.
RestartLoopIds == {1, 2}

\* NewProcessor, with room for the goroutines of two Start() calls.
RestartInit ==
    /\ active = FALSE
    /\ Mode = "Normal"
    /\ cancelled = FALSE
    /\ crashed = FALSE
    /\ activeThreat = NoThreat
    /\ location = Loc(0)
    /\ protection = [ p \in Parts |-> DefaultProtection(PartType(p)) ]
    /\ health = [ p \in Parts |-> MaxHealth ]
    /\ lastUpdate = [ p \in Parts |-> 0 ]
    /\ starts = 0
    /\ stops = 0
    /\ stopResult = "none"
    /\ reports = 0
    /\ rtPc = "idle"
    /\ rtThreat = NoThreat
    /\ rtWrote = <<>>
    /\ rtDefLog = NoDefLog
    /\ rtOffLog = <<>>
    /\ rtResult = "none"
    /\ scanPc = [ i \in RestartLoopIds |-> "none" ]
    /\ scanThreats = [ i \in RestartLoopIds |-> <<>> ]
    /\ scanHighest = [ i \in RestartLoopIds |-> NoThreat ]
    /\ scanSeen = [ i \in RestartLoopIds |-> NoThreat ]
    /\ monRun = 0
    /\ healthRun = 0
    /\ lkProg = [ t \in LockThreads |-> <<>> ]
    /\ lkPos = [ t \in LockThreads |-> 1 ]
    /\ lkAsked = [ t \in LockThreads |-> FALSE ]
    /\ lkWriter = [ l \in Locks |-> "none" ]
    /\ lkReaders = [ l \in Locks |-> {} ]
    /\ MoveIdle
    /\ NewBodyPart(DefaultProtection("head"))
    /\ RegistryIdle
    /\ DefenseStart("head")

\* The runs in which only the movement ticker of the scan goroutines fires
\* (the scan ticker and the health ticker are five and ten times slower).
RestartNext ==
    \/ Start
    \/ Stop
    \/ ReportThreat
    \/ \E i \in RestartLoopIds :
           \/ MovementTick(i)
           \/ moveAndEngage(i)
           \/ ScanExit(i)
    \/ MonitorThreatsExit
    \/ MonitorHealthExit

RestartSpec == RestartInit /\ [][RestartNext]_vars

\* The places of moveAndEngage that read p.activeThreat.Location, .Severity
\* or .ID: the distance (429), the three branches (433-459) and the log
\* line of the elimination (465).
EngagementReads == { "me_distance", "me_engage", "me_move", "me_back", "me_clear" }

\* C36: wherever a scan goroutine stands in moveAndEngage before a read of
\* the active threat's fields, the active threat is not nil; no goroutine
\* has panicked.
C36_EngagementNeverReadsNil ==
    /\ ~crashed
    /\ \A i \in DOMAIN scanPc :
           scanPc[i] \in EngagementReads => activeThreat # NoThreat

\* The goroutines of scanEnvironment that have been spawned and have not
\* returned.
ScanLoopsRunning == { i \in DOMAIN scanPc : scanPc[i] \notin {"none", "exited", "panic"} }

\* C37: at most one monitorThreats, one monitorHealth and one
\* scanEnvironment goroutine is running.
C37_OneInstancePerLoop ==
    /\ monRun <= 1
    /\ healthRun <= 1
    /\ Cardinality(ScanLoopsRunning) <= 1

\* --------------------------------------------- the loops and the active flag
\* C38: whenever the processor reports itself active, a monitorHealth and a
\* scanEnvironment goroutine are running, so that an accepted threat meets
\* an engagement tick.
C38_ActiveMeansLoopsRunning ==
    active => (healthRun > 0 /\ ScanLoopsRunning # {})

\* A step of one of the loops: a scanEnvironment goroutine moves on, or the
\* health loop ticks; no step of a ReportThreat call.
LoopStep ==
    /\ rtPc' = rtPc
    /\ reports' = reports
    /\ scanPc' # scanPc \/ lastUpdate' # lastUpdate \/ health' # health

\* C39: once Stop() has returned, no step of a loop changes the location,
\* the mode, the active threat or the health or protection of a part.
C39_NoLoopEffectAfterStop ==
    [][ (stops > 0 /\ LoopStep) =>
            /\ location' = location
            /\ Mode' = Mode
            /\ activeThreat' = activeThreat
            /\ health' = health
            /\ protection' = protection ]_vars

\* The threat the defensive strategies of a step are run against:
\* ReportThreat's argument in its defensive pass, else the active threat.
DefendedThreat == IF rtPc = "defend" THEN rtThreat ELSE activeThreat

\* C40: a step that runs the defensive strategies against a threat of
\* severity 1 to 9 lowers no critical part's armor rating or shield
\* strength, and leaves at or above its default every value that was there.
C40_DefenseNeverLowersProtection ==
    [][ \A p \in GetCriticalParts :
          (protection'[p] # protection[p] /\ DefendedThreat.Severity \in 1..9) =>
              LET default == DefaultProtection(PartType(p))
              IN  /\ protection'[p].ArmorRating >= protection[p].ArmorRating
                  /\ protection'[p].ShieldStrength >= protection[p].ShieldStrength
                  /\ protection[p].ArmorRating >= default.ArmorRating =>
                         protection'[p].ArmorRating >= default.ArmorRating
                  /\ protection[p].ShieldStrength >= default.ShieldStrength =>
                         protection'[p].ShieldStrength >= default.ShieldStrength ]_vars


=============================================================================
